---------------------------- MODULE Spec2Model ----------------------------
(***************************************************************************)
(* Observatorio: the filter engine (DataModel), the pipeline staleness     *)
(* tracker (PipelineState / MainWindow) and the debounced DataView with    *)
(* its DataTable, modelled from the Python sources.                        *)
(*                                                                         *)
(* Texts are tuples of one-character strings, so that parsing, lowercasing *)
(* and matching are computed and not assumed.  A cell of a pandas column   *)
(* is a record with a kind: "null" (None / NaN / NaT), "num", "ts"         *)
(* (day since epoch, second of day, nanosecond) or "str".                  *)
(***************************************************************************)
EXTENDS Integers, Sequences, FiniteSets, TLC

VARIABLES
    gen,            \* which application generation is running
    df,             \* DataModel.df: the canonical table, or NoTable
    view,           \* DataModel.view: the filtered table, or NoTable
    filters,        \* DataModel.filters of main.py: sequence of FilterSpec
    col_filters,    \* DataModel.col_filters of underlying_app: column -> token
    global_search,  \* DataModel.global_search of underlying_app
    last,           \* history: the last operation and what it did
    clock,          \* the latest reading of datetime.now()
    underlyings_df, \* MainWindow._underlyings_df: "None" or "rows"
    raptor_df,      \* MainWindow._raptor_df: "None", "empty" or "rows"
    state,          \* MainWindow.state: the PipelineState
    ran,            \* history: the last MainWindow handler and how it ended
    filter_vars,    \* DataView._filter_vars: column -> text of its combobox
    search_var,     \* DataView.search_var: the text of the search entry
    search_buffer,  \* DataView._search_buffer (manual search apply)
    timers,         \* the after() queue of Tk: timer id -> milliseconds left
    pending_job,    \* DataView._pending_job: a timer id, or 0 for None
    table,          \* DataView.table: the DataTable (_df, _sort_col, _sort_asc,
                    \* _last_cell_value, and the headings and selection of its tree)
    clipboard,      \* the text this program last put on the Tk clipboard
    ui,             \* history: the last DataView / DataTable handler
    burst           \* history: the current run of debounced keystrokes

\* the variables of the DataModel
modelVars == <<df, view, filters, col_filters, global_search, last>>

\* the variables of the MainWindow and its PipelineState
pipeVars == <<clock, underlyings_df, raptor_df, state, ran>>

\* the variables of a DataView and its DataTable
viewVars ==
    <<filter_vars, search_var, search_buffer, timers, pending_job, table, clipboard, ui, burst>>

-----------------------------------------------------------------------------
(* Texts *)

Digits == {"0", "1", "2", "3", "4", "5", "6", "7", "8", "9"}

DigitVal(ch) ==
    CASE ch = "0" -> 0 [] ch = "1" -> 1 [] ch = "2" -> 2 [] ch = "3" -> 3
      [] ch = "4" -> 4 [] ch = "5" -> 5 [] ch = "6" -> 6 [] ch = "7" -> 7
      [] ch = "8" -> 8 [] ch = "9" -> 9

DigitChar(n) ==
    CASE n = 0 -> "0" [] n = 1 -> "1" [] n = 2 -> "2" [] n = 3 -> "3"
      [] n = 4 -> "4" [] n = 5 -> "5" [] n = 6 -> "6" [] n = 7 -> "7"
      [] n = 8 -> "8" [] n = 9 -> "9"

\* str.lower() on the alphabet of the model: the cased letters are C and A.
LowerChar(ch) == IF ch = "C" THEN "c" ELSE IF ch = "A" THEN "a" ELSE ch

Lower(t) == [i \in 1..Len(t) |-> LowerChar(t[i])]

IsDigits(t) == Len(t) > 0 /\ \A i \in 1..Len(t) : t[i] \in Digits

RECURSIVE NatOf(_)
\* the value of a run of decimal digits
NatOf(t) ==
    IF Len(t) = 0 THEN 0
    ELSE 10 * NatOf(SubSeq(t, 1, Len(t) - 1)) + DigitVal(t[Len(t)])

RECURSIVE NatText(_)
\* str(n) for n >= 0
NatText(n) ==
    IF n < 10 THEN <<DigitChar(n)>>
    ELSE NatText(n \div 10) \o <<DigitChar(n % 10)>>

\* str(n) of a Python int
IntText(n) == IF n < 0 THEN <<"-">> \o NatText(0 - n) ELSE NatText(n)

\* str(x) of a Python float holding a whole number: "35.0"
FloatText(n) == IntText(n) \o <<".", "0">>

\* a field of strftime: n zero-padded to two digits
Pad2(n) == <<DigitChar(n \div 10), DigitChar(n % 10)>>

RECURSIVE LStrip(_)
LStrip(t) == IF Len(t) > 0 /\ t[1] = " " THEN LStrip(Tail(t)) ELSE t

RECURSIVE RStrip(_)
RStrip(t) ==
    IF Len(t) > 0 /\ t[Len(t)] = " " THEN RStrip(SubSeq(t, 1, Len(t) - 1)) ELSE t

\* str.strip()
Strip(t) == RStrip(LStrip(t))

\* re.compile(needle) fails on an unterminated group: the alphabet has "("
\* and no ")".
RegexInvalid(needle) == \E i \in 1..Len(needle) : needle[i] = "("

\* re.search(needle, hay, re.IGNORECASE) for a valid pattern of literals
RegexSearchNoCase(hay, needle) ==
    \E o \in 0..(Len(hay) - Len(needle)) :
        \A i \in 1..Len(needle) : LowerChar(hay[o + i]) = LowerChar(needle[i])

\* plain substring test on already lowercased texts, as str.contains of the
\* column-filter model uses it (the pattern is still a regular expression)
RegexSearch(hay, needle) ==
    \E o \in 0..(Len(hay) - Len(needle)) :
        \A i \in 1..Len(needle) : hay[o + i] = needle[i]

-----------------------------------------------------------------------------
(* Cells and calendar *)

NullV == [k |-> "null", n |-> 0, day |-> 0, sec |-> 0, ns |-> 0, txt |-> <<>>]
NoneV == [k |-> "none", n |-> 0, day |-> 0, sec |-> 0, ns |-> 0, txt |-> <<>>]
Num(v) == [k |-> "num", n |-> v, day |-> 0, sec |-> 0, ns |-> 0, txt |-> <<>>]
Ts(d, s, f) == [k |-> "ts", n |-> 0, day |-> d, sec |-> s, ns |-> f, txt |-> <<>>]
Str(t) == [k |-> "str", n |-> 0, day |-> 0, sec |-> 0, ns |-> 0, txt |-> t]

IsNull(c) == c.k = "null"

\* Timestamp comparison; NaT compares false with everything
TsLt(x, y) ==
    /\ x.k = "ts" /\ y.k = "ts"
    /\ \/ x.day < y.day
       \/ x.day = y.day /\ x.sec < y.sec
       \/ x.day = y.day /\ x.sec = y.sec /\ x.ns < y.ns

TsLe(x, y) == x.k = "ts" /\ y.k = "ts" /\ ~TsLt(y, x)

\* days since 1970-01-01 of a civil date (proleptic Gregorian)
DaysFromCivil(y, m, d) ==
    LET yy == IF m <= 2 THEN y - 1 ELSE y
        era == yy \div 400
        yoe == yy - era * 400
        mp == IF m > 2 THEN m - 3 ELSE m + 9
        doy == (153 * mp + 2) \div 5 + d - 1
        doe == yoe * 365 + yoe \div 4 - yoe \div 100 + doy
    IN  era * 146097 + doe - 719468

\* the civil date of a day number, as <<year, month, day>>
CivilFromDays(z0) ==
    LET z == z0 + 719468
        era == z \div 146097
        doe == z - era * 146097
        yoe == (doe - doe \div 1460 + doe \div 36524 - doe \div 146096) \div 365
        doy == doe - (365 * yoe + yoe \div 4 - yoe \div 100)
        mp == (5 * doy + 2) \div 153
        d == doy - (153 * mp + 2) \div 5 + 1
        m == IF mp < 10 THEN mp + 3 ELSE mp - 9
        y == yoe + era * 400 + (IF m <= 2 THEN 1 ELSE 0)
    IN  <<y, m, d>>

DaysInMonth(y, m) ==
    IF m = 2
    THEN (IF (y % 4 = 0 /\ y % 100 # 0) \/ y % 400 = 0 THEN 29 ELSE 28)
    ELSE IF m \in {4, 6, 9, 11} THEN 30 ELSE 31

\* strftime("%Y-%m-%d %H:%M:%S") of a timestamp
Strftime(c) ==
    LET ymd == CivilFromDays(c.day)
    IN  Pad2(ymd[1] \div 100) \o Pad2(ymd[1] % 100) \o <<"-">> \o Pad2(ymd[2]) \o <<"-">> \o Pad2(ymd[3])
        \o <<" ">> \o Pad2(c.sec \div 3600) \o <<":">>
        \o Pad2((c.sec \div 60) % 60) \o <<":">> \o Pad2(c.sec % 60)

-----------------------------------------------------------------------------
(* Tables: cols is df.columns in order, dtype maps each column to its pandas *)
(* dtype ("int64", "float64", "datetime64", "object"); rows keep their index *)
(* label in id.                                                              *)

EmptyDtype == [c \in {} |-> "object"]

NoTable == [none |-> TRUE, cols |-> <<>>, dtype |-> EmptyDtype, rows |-> <<>>]

Table(cs, dt, rs) == [none |-> FALSE, cols |-> cs, dtype |-> dt, rows |-> rs]

Columns(t) == DOMAIN t.dtype

\* pd.api.types.is_numeric_dtype / is_datetime64_any_dtype
IsNumericDtype(t, col) == t.dtype[col] \in {"int64", "float64"}

IsDatetimeDtype(t, col) == t.dtype[col] = "datetime64"

\* df[mask] with the rows that are kept coming out last row first
KeepLastFirst(rows, keep) ==
    LET ix == {i \in 1..Len(rows) : rows[i].id \in keep}
    IN  [j \in 1..Cardinality(ix) |->
            rows[CHOOSE i \in ix : Cardinality({k \in ix : k >= i}) = j]]

\* df[mask]: the rows whose id is in keep, in their order
RECURSIVE Keep(_, _)
Keep(rows, keep) ==
    IF rows = <<>> THEN <<>>
    ELSE (IF Head(rows).id \in keep THEN <<Head(rows)>> ELSE <<>>)
         \o Keep(Tail(rows), keep)

Ids(rows) == {rows[i].id : i \in 1..Len(rows)}

-----------------------------------------------------------------------------
(* Value parsing, as _apply_single_filter's helpers do it *)

\* float(x) on the model's alphabet: an optional sign and a run of digits
try_to_numeric(x) ==
    IF IsDigits(x) THEN Num(NatOf(x))
    ELSE IF Len(x) > 1 /\ x[1] = "-" /\ IsDigits(Tail(x)) THEN Num(0 - NatOf(Tail(x)))
    ELSE NoneV

IsIsoDate(x) ==
    /\ Len(x) = 10
    /\ x[5] = "-" /\ x[8] = "-"
    /\ IsDigits(SubSeq(x, 1, 4)) /\ IsDigits(SubSeq(x, 6, 7)) /\ IsDigits(SubSeq(x, 9, 10))
    /\ NatOf(SubSeq(x, 1, 4)) \in 1678..2261
    /\ NatOf(SubSeq(x, 6, 7)) \in 1..12
    /\ NatOf(SubSeq(x, 9, 10)) \in 1..DaysInMonth(NatOf(SubSeq(x, 1, 4)), NatOf(SubSeq(x, 6, 7)))

IsIsoTime(x) ==
    /\ Len(x) = 8
    /\ x[3] = ":" /\ x[6] = ":"
    /\ IsDigits(SubSeq(x, 1, 2)) /\ IsDigits(SubSeq(x, 4, 5)) /\ IsDigits(SubSeq(x, 7, 8))
    /\ NatOf(SubSeq(x, 1, 2)) < 24 /\ NatOf(SubSeq(x, 4, 5)) < 60 /\ NatOf(SubSeq(x, 7, 8)) < 60

IsoDay(x) ==
    DaysFromCivil(NatOf(SubSeq(x, 1, 4)), NatOf(SubSeq(x, 6, 7)), NatOf(SubSeq(x, 9, 10)))

\* a parser that reads every short number as a year, small ones included
try_to_datetime_short_numbers(x) ==
    IF x = <<>> THEN NullV
    ELSE IF IsDigits(x) /\ Len(x) <= 4
    THEN Ts(DaysFromCivil(IF NatOf(x) < 1678 THEN 2000 + (NatOf(x) % 100) ELSE NatOf(x), 1, 1), 0, 0)
    ELSE IF IsIsoDate(x) THEN Ts(IsoDay(x), 0, 0)
    ELSE NoneV

\* pd.to_datetime(x, errors="raise") wrapped in try/except, for the texts of
\* the model: the empty text gives NaT (not None); a run of at most four
\* digits is taken for a year when it reads as a number >= 1000 that fits a
\* nanosecond timestamp, and is refused ("not likely a datetime") below
\* 1000; ISO dates and date-times parse; a text with a letter, a sign or a
\* bracket does not.
try_to_datetime(x) ==
    IF x = <<>> THEN NullV
    ELSE IF IsDigits(x) /\ Len(x) <= 4
    THEN (IF NatOf(x) \in 1678..2262 /\ x[1] # "0"
          THEN Ts(DaysFromCivil(NatOf(x), 1, 1), 0, 0) ELSE NoneV)
    ELSE IF IsIsoDate(x) THEN Ts(IsoDay(x), 0, 0)
    ELSE IF Len(x) = 19 /\ x[11] = " " /\ IsIsoDate(SubSeq(x, 1, 10)) /\ IsIsoTime(SubSeq(x, 12, 19))
    THEN Ts(IsoDay(SubSeq(x, 1, 10)), NatOf(SubSeq(x, 12, 13)) * 3600 + NatOf(SubSeq(x, 15, 16)) * 60 + NatOf(SubSeq(x, 18, 19)), 0)
    ELSE NoneV

\* one element of pd.to_datetime(s, errors="coerce"): numbers are
\* nanoseconds since the epoch, texts are parsed, failures become NaT
CoerceDatetime(c) ==
    CASE c.k = "ts" -> c
      [] c.k = "num" -> Ts((c.n \div 1000000000) \div 86400,
                           (c.n \div 1000000000) % 86400, c.n % 1000000000)
      [] c.k = "str" -> (IF try_to_datetime(c.txt).k = "ts" THEN try_to_datetime(c.txt) ELSE NullV)
      [] OTHER -> NullV

\* one element of pd.to_numeric(s, errors="coerce")
CoerceNumeric(c) ==
    CASE c.k = "num" -> c
      [] c.k = "str" -> (IF try_to_numeric(c.txt).k = "num" THEN try_to_numeric(c.txt) ELSE NullV)
      [] OTHER -> NullV

\* whether pd.to_numeric(s) is an int64 column (str(x) then has no ".0")
NumericIsInt(t, col) ==
    \/ t.dtype[col] = "int64"
    \/ /\ t.dtype[col] = "object"
       /\ \A i \in 1..Len(t.rows) : CoerceNumeric(t.rows[i].cells[col]).k = "num"

\* s.astype("string").fillna("") for one element of a column of dtype dt
AsString(c, dt) ==
    CASE c.k = "str" -> c.txt
      [] c.k = "num" -> (IF dt = "int64" THEN IntText(c.n) ELSE FloatText(c.n))
      [] c.k = "ts" -> Strftime(c)
      [] OTHER -> <<>>

-----------------------------------------------------------------------------
(* DataModel of main.py: FilterSpec evaluation *)

FilterSpec(c, o, a, b) == [column |-> c, op |-> o, value1 |-> a, value2 |-> b]

\* the outcome of evaluating one filter: the kept rows, or an exception
Ok(rows) == [raised |-> FALSE, rows |-> rows]

Raised == [raised |-> TRUE, rows |-> <<>>]

\* df[mask] for a mask over the positions of the rows of t
Select(t, mask) ==
    Ok(Keep(t.rows, {t.rows[i].id : i \in {j \in DOMAIN t.rows : mask[j]}}))

\* DataModel._apply_string_ops; s_str gives the text of the column at each position
apply_string_ops(t, s_str, op, v1) ==
    CASE op = "=" -> Select(t, [i \in DOMAIN t.rows |-> s_str[i] = v1])
      [] op = "!=" -> Select(t, [i \in DOMAIN t.rows |-> s_str[i] # v1])
      [] op = "contains" ->
            (IF RegexInvalid(v1) THEN Raised
             ELSE Select(t, [i \in DOMAIN t.rows |-> RegexSearchNoCase(s_str[i], v1)]))
      [] op = "startswith" ->
            Select(t, [i \in DOMAIN t.rows |->
                          /\ Len(v1) <= Len(s_str[i])
                          /\ SubSeq(s_str[i], 1, Len(v1)) = v1])
      [] op = "endswith" ->
            Select(t, [i \in DOMAIN t.rows |->
                          /\ Len(v1) <= Len(s_str[i])
                          /\ SubSeq(s_str[i], Len(s_str[i]) - Len(v1) + 1, Len(s_str[i])) = v1])
      [] OTHER -> Ok(t.rows)

\* a mode decision that tries the number before the date
ModeOfNumericFirst(t, f) ==
    IF f.op \in {"is null", "is not null"} THEN "null"
    ELSE IF IsDatetimeDtype(t, f.column) THEN "datetime"
    ELSE IF try_to_numeric(Strip(f.value1)).k = "num"
            /\ \E i \in 1..Len(t.rows) : CoerceNumeric(t.rows[i].cells[f.column]).k = "num"
    THEN "numeric"
    ELSE IF try_to_datetime(Strip(f.value1)).k # "none"
            /\ \E i \in 1..Len(t.rows) : CoerceDatetime(t.rows[i].cells[f.column]).k = "ts"
    THEN "datetime"
    ELSE "string"

\* the comparison mode _apply_single_filter decides on
ModeOf(t, f) ==
    LET col == f.column
        v1 == Strip(f.value1)
        dt_v1 == try_to_datetime(v1)
        num_v1 == try_to_numeric(v1)
    IN  IF f.op \in {"is null", "is not null"} THEN "null"
        ELSE IF IsDatetimeDtype(t, col) THEN "datetime"
        ELSE IF dt_v1.k # "none"
                /\ \E i \in 1..Len(t.rows) : CoerceDatetime(t.rows[i].cells[col]).k = "ts"
        THEN "datetime"
        ELSE IF num_v1.k = "num"
                /\ \E i \in 1..Len(t.rows) : CoerceNumeric(t.rows[i].cells[col]).k = "num"
        THEN "numeric"
        ELSE "string"

\* the datetime branch of _apply_single_filter
DatetimeOps(t, f) ==
    LET col == f.column
        op == f.op
        v1 == Strip(f.value1)
        v2 == Strip(f.value2)
        dt_v1 == try_to_datetime(v1)
        dt_v2 == IF v2 # <<>> THEN try_to_datetime(v2) ELSE NoneV
        s(r) == CoerceDatetime(r.cells[col])
        sameDate(r) == s(r).k = "ts" /\ dt_v1.k = "ts" /\ s(r).day = dt_v1.day
        lo == IF TsLe(dt_v1, dt_v2) THEN dt_v1 ELSE dt_v2
        hi == IF TsLe(dt_v1, dt_v2) THEN dt_v2 ELSE dt_v1
        s_str(r) == IF s(r).k = "ts" THEN Strftime(s(r)) ELSE <<>>
    IN  IF dt_v1.k = "none" /\ op \notin {"contains", "startswith", "endswith"}
        THEN Ok(<<>>)
        ELSE CASE op = "=" -> Select(t, [i \in DOMAIN t.rows |-> LET r == t.rows[i] IN sameDate(r)])
               [] op = "!=" -> Select(t, [i \in DOMAIN t.rows |-> LET r == t.rows[i] IN ~sameDate(r)])
               [] op = "<" -> Select(t, [i \in DOMAIN t.rows |-> LET r == t.rows[i] IN TsLt(s(r), dt_v1)])
               [] op = "<=" -> Select(t, [i \in DOMAIN t.rows |-> LET r == t.rows[i] IN TsLe(s(r), dt_v1)])
               [] op = ">" -> Select(t, [i \in DOMAIN t.rows |-> LET r == t.rows[i] IN TsLt(dt_v1, s(r))])
               [] op = ">=" -> Select(t, [i \in DOMAIN t.rows |-> LET r == t.rows[i] IN TsLe(dt_v1, s(r))])
               [] op = "between" ->
                     (IF dt_v2.k = "none" THEN Ok(<<>>)
                      ELSE Select(t, [i \in DOMAIN t.rows |-> LET r == t.rows[i] IN TsLe(lo, s(r)) /\ TsLe(s(r), hi)]))
               [] OTHER -> apply_string_ops(t, [i \in DOMAIN t.rows |-> s_str(t.rows[i])], op, v1)

\* the numeric branch of _apply_single_filter
NumericOps(t, f) ==
    LET col == f.column
        op == f.op
        v1 == Strip(f.value1)
        v2 == Strip(f.value2)
        num_v1 == try_to_numeric(v1).n
        num_v2 == IF v2 # <<>> THEN try_to_numeric(v2) ELSE NoneV
        s(r) == CoerceNumeric(r.cells[col])
        has(r) == s(r).k = "num"
        lo == IF num_v1 <= num_v2.n THEN num_v1 ELSE num_v2.n
        hi == IF num_v1 <= num_v2.n THEN num_v2.n ELSE num_v1
        s_str(r) ==
            IF ~has(r) THEN <<>>
            ELSE IF NumericIsInt(t, col) THEN IntText(s(r).n) ELSE FloatText(s(r).n)
    IN  CASE op = "=" -> Select(t, [i \in DOMAIN t.rows |-> LET r == t.rows[i] IN has(r) /\ s(r).n = num_v1])
          [] op = "!=" -> Select(t, [i \in DOMAIN t.rows |-> LET r == t.rows[i] IN ~(has(r) /\ s(r).n = num_v1)])
          [] op = "<" -> Select(t, [i \in DOMAIN t.rows |-> LET r == t.rows[i] IN has(r) /\ s(r).n < num_v1])
          [] op = "<=" -> Select(t, [i \in DOMAIN t.rows |-> LET r == t.rows[i] IN has(r) /\ s(r).n <= num_v1])
          [] op = ">" -> Select(t, [i \in DOMAIN t.rows |-> LET r == t.rows[i] IN has(r) /\ s(r).n > num_v1])
          [] op = ">=" -> Select(t, [i \in DOMAIN t.rows |-> LET r == t.rows[i] IN has(r) /\ s(r).n >= num_v1])
          [] op = "between" ->
                (IF num_v2.k = "none" THEN Ok(<<>>)
                 ELSE Select(t, [i \in DOMAIN t.rows |-> LET r == t.rows[i] IN has(r) /\ lo <= s(r).n /\ s(r).n <= hi]))
          [] OTHER -> apply_string_ops(t, [i \in DOMAIN t.rows |-> s_str(t.rows[i])], op, v1)

\* DataModel._apply_single_filter(df, f), for f.column in df.columns
apply_single_filter(t, f) ==
    LET col == f.column
        mode == ModeOf(t, f)
    IN  CASE f.op = "is null" -> Select(t, [i \in DOMAIN t.rows |-> LET r == t.rows[i] IN IsNull(r.cells[col])])
          [] f.op = "is not null" -> Select(t, [i \in DOMAIN t.rows |-> LET r == t.rows[i] IN ~IsNull(r.cells[col])])
          [] OTHER ->
                CASE mode = "datetime" -> DatetimeOps(t, f)
                  [] mode = "numeric" -> NumericOps(t, f)
                  [] OTHER ->
                        apply_string_ops(t, [i \in DOMAIN t.rows |->
                                                AsString(t.rows[i].cells[col], t.dtype[col])],
                                         f.op, Strip(f.value1))

\* a table handed back, or an exception passed on to the caller
Done(t) == [raised |-> FALSE, t |-> t]

Thrown(t) == [raised |-> TRUE, t |-> t]

\* the loop body past the call with no try/except around it: the exception
\* reaches the caller
Uncaught(t, out) ==
    IF out.raised THEN Thrown(t) ELSE Done([t EXCEPT !.rows = out.rows])

\* the loop body past the call: an exception of _apply_single_filter is caught
\* (and logged), which leaves df as it was
Caught(t, out) ==
    IF out.raised THEN Done(t) ELSE Done([t EXCEPT !.rows = out.rows])

\* the body of the for loop of DataModel.apply_filters for one spec: a spec on
\* a missing column is skipped, any other is applied inside try/except
FilterStep(t, f) ==
    IF f.column \notin Columns(t) THEN Done(t)
    ELSE Caught(t, apply_single_filter(t, f))

\* FilterLoop with every spec evaluated against the table the loop started
\* from, the masks ANDed together
FilterLoopOnCanonical(t, fs) ==
    Done([t EXCEPT !.rows =
            Keep(t.rows,
                 {id \in Ids(t.rows) :
                    \A j \in DOMAIN fs :
                        \/ fs[j].column \notin Columns(t)
                        \/ \E out \in {apply_single_filter(t, fs[j])} :
                              out.raised \/ id \in Ids(out.rows)})])

RECURSIVE FilterLoop(_, _)
\* the loop past one step: on to the next spec, unless the step raised
LoopOn(step, rest) ==
    IF step.raised THEN step ELSE FilterLoop(step.t, rest)

\* the for loop of DataModel.apply_filters
FilterLoop(t, fs) ==
    IF fs = <<>> THEN Done(t) ELSE LoopOn(FilterStep(t, Head(fs)), Tail(fs))

\* the end of apply_filters: self.view = df, which an exception never reaches
Finish(loop, old) ==
    IF loop.raised THEN Thrown(old) ELSE loop

\* DataModel.apply_filters of main.py: the new self.view (old is the view
\* before the call, which stays when the call does not reach its last line)
apply_filters(d, fs, old) ==
    IF d.none THEN Done(NoTable) ELSE Finish(FilterLoop(d, fs), old)

-----------------------------------------------------------------------------
(* Sample tables and filter specs: the inputs the operations draw from *)

Row(i, cells) == [id |-> i, cells |-> cells]

\* people: name (object), age (whole numbers with one null, hence float64)
People ==
    Table(<<"name", "age">>, [c \in {"name", "age"} |-> IF c = "age" THEN "float64" ELSE "object"],
          << Row(0, [c \in {"name", "age"} |-> IF c = "age" THEN Num(35) ELSE Str(<<"C", "o">>)]),
             Row(1, [c \in {"name", "age"} |-> IF c = "age" THEN NullV ELSE Str(<<"o", "k">>)]),
             Row(2, [c \in {"name", "age"} |-> IF c = "age" THEN Num(7) ELSE Str(<<"k", "c", "o">>)]) >>)

\* events: ev (datetime64 with one NaT), tag (object: an ISO date, a word, None)
Events ==
    Table(<<"ev", "tag">>, [c \in {"ev", "tag"} |-> IF c = "ev" THEN "datetime64" ELSE "object"],
          << Row(0, [c \in {"ev", "tag"} |->
                        IF c = "ev" THEN Ts(19729, 36000, 0)
                        ELSE Str(<<"2", "0", "2", "4", "-", "0", "1", "-", "0", "7">>)]),
             Row(1, [c \in {"ev", "tag"} |-> IF c = "ev" THEN NullV ELSE Str(<<"C", "o">>)]),
             Row(2, [c \in {"ev", "tag"} |-> IF c = "ev" THEN Ts(19730, 0, 0) ELSE NullV]) >>)

SampleTables == {People, Events}

SampleSpecs ==
    { FilterSpec("age", ">", <<"3", "0">>, <<>>),
      FilterSpec("age", "<", <<"3", "0", " ">>, <<>>),
      FilterSpec("age", "is null", <<>>, <<>>),
      FilterSpec("age", "between", <<"4", "0">>, <<"5">>),
      FilterSpec("age", "between", <<"2", "0", "2", "4">>, <<"5">>),
      FilterSpec("name", "contains", <<"C", "o">>, <<>>),
      FilterSpec("name", "contains", <<"(">>, <<>>),
      FilterSpec("name", "like", <<"C", "o">>, <<>>),
      FilterSpec("ev", "like", <<"C", "o">>, <<>>),
      FilterSpec("name", "=", <<"2", "0", "2", "4">>, <<>>),
      FilterSpec("tag", "<", <<"2", "0", "2", "4", "-", "0", "1", "-", "0", "8">>, <<>>),
      FilterSpec("tag", "contains", <<"c">>, <<>>),
      FilterSpec("ev", "=", <<"2", "0", "2", "4", "-", "0", "1", "-", "0", "7">>, <<>>) }

\* the longest FilterSpec list the model builds
MaxFilters == 2

-----------------------------------------------------------------------------
(* DataModel of main.py: state and operations *)

\* what the last call was, whether it raised to its caller, and how many rows
\* the view had before it
Note(op, raised) ==
    [op |-> op, raised |-> raised, before |-> IF view.none THEN 0 ELSE Len(view.rows)]

\* the end of an operation: the view apply_filters leaves, and the history
Store(op, done) ==
    /\ view' = done.t
    /\ last' = Note(op, done.raised)

\* DataModel.set_df
set_df(t) ==
    /\ gen = "main"
    /\ df' = t
    /\ filters' = <<>>
    /\ Store("set_df", apply_filters(df', filters', view))
    /\ UNCHANGED <<gen, col_filters, global_search>>
    /\ UNCHANGED <<pipeVars, viewVars>>

\* DataModel.add_filter
add_filter(spec) ==
    /\ gen = "main"
    /\ Len(filters) < MaxFilters
    /\ filters' = Append(filters, spec)
    /\ Store("add_filter", apply_filters(df, filters', view))
    /\ UNCHANGED <<gen, df, col_filters, global_search>>
    /\ UNCHANGED <<pipeVars, viewVars>>

\* DataModel.clear_filters
clear_filters ==
    /\ gen = "main"
    /\ filters' = <<>>
    /\ Store("clear_filters", apply_filters(df, filters', view))
    /\ UNCHANGED <<gen, df, col_filters, global_search>>
    /\ UNCHANGED <<pipeVars, viewVars>>

\* list.pop(idx) for 0 <= idx < len (idx counts from 0)
Pop(fs, idx) == SubSeq(fs, 1, idx) \o SubSeq(fs, idx + 2, Len(fs))

\* remove_filter_at narrowing the view it already has instead of starting
\* again from df
remove_filter_at_incremental(idx) ==
    /\ gen = "main"
    /\ IF 0 <= idx /\ idx < Len(filters)
       THEN /\ filters' = Pop(filters, idx)
            /\ Store("remove_filter_at", apply_filters(view, filters', view))
       ELSE /\ UNCHANGED <<filters, view>>
            /\ last' = Note("remove_filter_at", FALSE)
    /\ UNCHANGED <<gen, df, col_filters, global_search>>
    /\ UNCHANGED <<pipeVars, viewVars>>

\* DataModel.remove_filter_at: an index out of range changes nothing
remove_filter_at(idx) ==
    /\ gen = "main"
    /\ IF 0 <= idx /\ idx < Len(filters)
       THEN /\ filters' = Pop(filters, idx)
            /\ Store("remove_filter_at", apply_filters(df, filters', view))
       ELSE /\ UNCHANGED <<filters, view>>
            /\ last' = Note("remove_filter_at", FALSE)
    /\ UNCHANGED <<gen, df, col_filters, global_search>>
    /\ UNCHANGED <<pipeVars, viewVars>>

-----------------------------------------------------------------------------
(* DataModel of underlying_app/data/model.py: column tokens and global search *)

All == <<"A", "l", "l">>

\* the text of a column the contains masks of apply_filters match against
ColText(t, col, r) ==
    IF IsDatetimeDtype(t, col)
    THEN (IF r.cells[col].k = "ts" THEN Strftime(r.cells[col]) ELSE <<>>)
    ELSE AsString(r.cells[col], t.dtype[col])

\* s_str.str.lower().str.contains(needle, na=False): needle is a pattern
ContainsMask(t, col, needle) ==
    IF RegexInvalid(needle) THEN Raised
    ELSE Select(t, [i \in DOMAIN t.rows |-> LET r == t.rows[i] IN RegexSearch(Lower(ColText(t, col, r)), needle)])

RECURSIVE ColFilterLoop(_, _, _)
\* the loop past one column: nothing catches an exception of str.contains
ColFilterOn(t, out, cf, cs) ==
    IF out.raised THEN Thrown(t) ELSE ColFilterLoop([t EXCEPT !.rows = out.rows], cf, cs)

\* the loop over self.col_filters.items(), cs being the columns still to do;
\* "All", "" and numeric columns are skipped
ColFilterLoop(t, cf, cs) ==
    IF cs = <<>> THEN Done(t)
    ELSE IF cf[Head(cs)] \in {<<>>, All} \/ IsNumericDtype(t, Head(cs))
    THEN ColFilterLoop(t, cf, Tail(cs))
    ELSE ColFilterOn(t, ContainsMask(t, Head(cs), Lower(cf[Head(cs)])), cf, Tail(cs))

\* the columns the global search looks into
SearchColumns(t) == {c \in Columns(t) : ~IsNumericDtype(t, c)}

\* the global-search block of apply_filters: the OR of the contains masks
GlobalSearch(t, q) ==
    IF q = <<>> \/ SearchColumns(t) = {} THEN Done(t)
    ELSE IF RegexInvalid(Lower(q)) THEN Thrown(t)
    ELSE Done([t EXCEPT !.rows =
                 Select(t, [i \in DOMAIN t.rows |-> LET r == t.rows[i] IN \E c \in SearchColumns(t) :
                                         RegexSearch(Lower(ColText(t, c, r)), Lower(q))]).rows])

\* the global search applied to what the column loop left
SearchOn(loop, q) ==
    IF loop.raised THEN loop ELSE GlobalSearch(loop.t, q)

\* DataModel.apply_filters of model.py: the new self.view; nothing catches an
\* exception here, so the view stays what it was (old)
cf_apply_filters(d, cf, q, old) ==
    IF d.none THEN Done(NoTable)
    ELSE Finish(SearchOn(ColFilterLoop(d, cf, d.cols), q), old)

\* a method that returns early: the model as it is, nothing raised
Returns(m) == [raised |-> FALSE, m |-> m]

\* the model a method leaves once its apply_filters call is over
Applied(m, done) == [raised |-> done.raised, m |-> [m EXCEPT !.view = done.t]]

\* self.apply_filters() as the last statement of a method
Reapply(m) ==
    Applied(m, cf_apply_filters(m.df, m.col_filters, m.global_search, m.view))

\* set_df resetting the column tokens and leaving the search text
model_set_df_keeps_search(m, t) ==
    Reapply([m EXCEPT !.df = t, !.col_filters = [c \in Columns(t) |-> All]])

\* DataModel.set_df
model_set_df(m, t) ==
    Reapply([m EXCEPT !.df = t,
                      !.col_filters = [c \in Columns(t) |-> All],
                      !.global_search = <<>>])

\* DataModel.set_col_filter
model_set_col_filter(m, column, text) ==
    IF m.df.none \/ column \notin Columns(m.df) THEN Returns(m)
    ELSE Reapply([m EXCEPT !.col_filters[column] = IF text # <<>> THEN text ELSE All])

\* DataModel.set_global_search
model_set_global_search(m, text) ==
    Reapply([m EXCEPT !.global_search = Strip(text)])

\* clear_filters resetting the column tokens and leaving the search text
model_clear_filters_keeps_search(m) ==
    IF m.df.none THEN Returns(m)
    ELSE Reapply([m EXCEPT !.col_filters = [c \in DOMAIN @ |-> All]])

\* DataModel.clear_filters
model_clear_filters(m) ==
    IF m.df.none THEN Returns(m)
    ELSE Reapply([m EXCEPT !.col_filters =
                               [c \in DOMAIN @ |-> IF c \in Columns(m.df) THEN All ELSE @[c]],
                           !.global_search = <<>>])

\* the DataModel the variables hold
Model ==
    [df |-> df, view |-> view, col_filters |-> col_filters, global_search |-> global_search]

\* the end of a call on the DataModel: its fields, and the history
Load(op, out) ==
    /\ df' = out.m.df
    /\ view' = out.m.view
    /\ col_filters' = out.m.col_filters
    /\ global_search' = out.m.global_search
    /\ last' = Note(op, out.raised)

\* a call of DataModel.set_df
cf_set_df(t) ==
    /\ gen = "app7"
    /\ Load("set_df", model_set_df(Model, t))
    /\ UNCHANGED <<gen, filters>>
    /\ UNCHANGED <<pipeVars, viewVars>>

\* a call of DataModel.set_col_filter
cf_set_col_filter(column, text) ==
    /\ gen = "app7"
    /\ Load("set_col_filter", model_set_col_filter(Model, column, text))
    /\ UNCHANGED <<gen, filters>>
    /\ UNCHANGED <<pipeVars, viewVars>>

\* a call of DataModel.set_global_search
cf_set_global_search(text) ==
    /\ gen = "app7"
    /\ Load("set_global_search", model_set_global_search(Model, text))
    /\ UNCHANGED <<gen, filters>>
    /\ UNCHANGED <<pipeVars, viewVars>>

\* a call of DataModel.clear_filters
cf_clear_filters ==
    /\ gen = "app7"
    /\ Load("clear_filters", model_clear_filters(Model))
    /\ UNCHANGED <<gen, filters>>
    /\ UNCHANGED <<pipeVars, viewVars>>

\* a DataView before its first table: no widgets, no timer, an empty DataTable
NoBurst == [n |-> 0, elapsed |-> 0, fired |-> 0, vars |-> EmptyDtype, search |-> <<>>]

ViewAsConstructed ==
    /\ filter_vars = EmptyDtype
    /\ search_var = <<>>
    /\ search_buffer = <<>>
    /\ timers = [j \in {} |-> 0]
    /\ pending_job = 0
    /\ table = [df |-> NoTable, sort_col |-> "", sort_asc |-> TRUE, heading |-> EmptyDtype,
                 last_cell_value |-> NoneV, selection |-> {}]
    /\ clipboard = NoneV
    /\ ui = [op |-> "init", raised |-> FALSE]
    /\ burst = NoBurst

InitModel ==
    /\ gen \in {"main", "app7"}
    /\ col_filters = EmptyDtype
    /\ global_search = <<>>
    /\ df = NoTable
    /\ view = NoTable
    /\ filters = <<>>
    /\ last = [op |-> "init", raised |-> FALSE, before |-> 0]
    /\ clock = 0
    /\ underlyings_df = "None"
    /\ raptor_df = "None"
    /\ state = [underlyings_loaded_at |-> [none |-> TRUE, at |-> 0],
                raptor_loaded_at |-> [none |-> TRUE, at |-> 0],
                actions_computed_at |-> EmptyDtype]
    /\ ran = [op |-> "init", key |-> "", outcome |-> "done", stale |-> {}]
    /\ ViewAsConstructed

NextModel ==
    \/ \E t \in SampleTables : set_df(t)
    \/ \E spec \in SampleSpecs : add_filter(spec)
    \/ clear_filters
    \/ \E idx \in (0 - 1)..MaxFilters : remove_filter_at(idx)
    \/ \E t \in SampleTables : cf_set_df(t)
    \/ \E c \in {"name", "age", "ev", "tag"},
          text \in {All, <<>>, <<"c", "o">>, <<"C">>, <<"(">>, <<"0", "7">>} :
            cf_set_col_filter(c, text)
    \/ \E text \in {<<>>, <<"k">>, <<" ", "C", "o">>, <<"(">>} : cf_set_global_search(text)
    \/ cf_clear_filters

vars == <<gen, modelVars, pipeVars, viewVars>>

SpecModel == InitModel /\ [][NextModel]_vars

-----------------------------------------------------------------------------
(* PipelineState (data/state.py) and the MainWindow handlers that drive it *)

\* Optional[datetime]: None, or a reading of datetime.now()
NoneAt == [none |-> TRUE, at |-> 0]

At(t) == [none |-> FALSE, at |-> t]

\* PipelineState() as constructed
PipelineState ==
    [underlyings_loaded_at |-> NoneAt,
     raptor_loaded_at |-> NoneAt,
     actions_computed_at |-> EmptyDtype]

\* PipelineState.is_raptor_loaded
is_raptor_loaded(s) == ~s.raptor_loaded_at.none

\* PipelineState.mark_underlyings_loaded, now being the reading of the clock
mark_underlyings_loaded(s, now) == [s EXCEPT !.underlyings_loaded_at = At(now)]

\* PipelineState.mark_raptor_loaded
mark_raptor_loaded(s, now) == [s EXCEPT !.raptor_loaded_at = At(now)]

\* mark_action_computed keeping the timestamp of the first computation
mark_action_computed_once(s, action_key, now) ==
    [s EXCEPT !.actions_computed_at =
        [k \in DOMAIN s.actions_computed_at \cup {action_key} |->
            IF k \in DOMAIN s.actions_computed_at THEN s.actions_computed_at[k] ELSE now]]

\* PipelineState.mark_action_computed
mark_action_computed(s, action_key, now) ==
    [s EXCEPT !.actions_computed_at =
        [k \in DOMAIN s.actions_computed_at \cup {action_key} |->
            IF k = action_key THEN now ELSE s.actions_computed_at[k]]]

\* PipelineState.is_action_ready
is_action_ready(s, action_key) == action_key \in DOMAIN s.actions_computed_at

\* is_action_stale calling an action computed at the very reading of the load stale
is_action_stale_on_tie(s, action_key) ==
    IF s.raptor_loaded_at.none
    THEN FALSE
    ELSE IF action_key \notin DOMAIN s.actions_computed_at
         THEN FALSE
         ELSE s.raptor_loaded_at.at >= s.actions_computed_at[action_key]

\* PipelineState.is_action_stale
is_action_stale(s, action_key) ==
    IF s.raptor_loaded_at.none
    THEN FALSE
    ELSE IF action_key \notin DOMAIN s.actions_computed_at
         THEN FALSE
         ELSE s.raptor_loaded_at.at > s.actions_computed_at[action_key]

\* ActionSpec: the key and the kind of view the action fills
ActionSpec(key, view_type) == [key |-> key, view_type |-> view_type]

\* get_default_actions: one action of each view type in generation (8) and in
\* the matplotlib generation, whose window imports the same registry; two of
\* the table actions in generation (7), which has table views only
get_default_actions(g) ==
    IF g \in {"app8", "mpl8"}
    THEN <<ActionSpec("action1", "table"),
           ActionSpec("action6", "spread_matrix"),
           ActionSpec("action7", "table_plot")>>
    ELSE <<ActionSpec("action1", "table"), ActionSpec("action2", "table")>>

\* the actions of a generation, as a set
Actions(g) == {get_default_actions(g)[i] : i \in 1..Len(get_default_actions(g))}

\* the keys of the actions of a generation
ActionKeys(g) == {a.key : a \in Actions(g)}

\* the ways one action of a run_all can go: its run raises, returns None,
\* returns a DataFrame its view takes, or one on which its view raises
RunCases ==
    {[res |-> "raises", push |-> "ok"], [res |-> "none", push |-> "ok"],
     [res |-> "frame", push |-> "ok"], [res |-> "frame", push |-> "raises"]}

\* the last clock value a run may read
MaxClock == 3

\* a reading of datetime.now() that follows the reading c: not earlier
Readings(c) == {c, c + 1} \cap 0..MaxClock

\* a guard that lets every raptor table through
guard_raptor_never_fails(r) == FALSE

\* MainWindow._guard_raptor: the table to run on is missing or empty
guard_raptor_fails(r) == r \in {"None", "empty"}

\* the body of run_action past the guard: the state it leaves, whether it read
\* the clock, and whether the except branch was taken
Ran(s, read, error) == [state |-> s, read |-> read, error |-> error]

\* the try block of run_action in generation (8)
RunBody8(s, action, res, push, now) ==
    CASE action.view_type = "spread_matrix" ->
            \* v.set_raptor(raptor), then the mark
            IF push = "raises"
            THEN Ran(s, FALSE, TRUE)
            ELSE Ran(mark_action_computed(s, action.key, now), TRUE, FALSE)
      [] action.view_type = "table_plot" ->
            \* the view takes the result only if it is a DataFrame; the mark
            \* follows; len(out) of the log line raises on None
            IF res = "raises"
            THEN Ran(s, FALSE, TRUE)
            ELSE IF res = "frame" /\ push = "raises"
                 THEN Ran(s, FALSE, TRUE)
                 ELSE Ran(mark_action_computed(s, action.key, now), TRUE, res = "none")
      [] OTHER ->
            \* a result that is no DataFrame is rejected; the mark comes
            \* before v.set_dataframe(out)
            IF res = "raises" \/ res = "none"
            THEN Ran(s, FALSE, TRUE)
            ELSE Ran(mark_action_computed(s, action.key, now), TRUE, push = "raises")

\* the try block of run_action in generation (7): run, store, mark, then
\* view.set_dataframe(out), which raises on None (set_df reads df.columns)
RunBody7(s, action, res, push, now) ==
    IF res = "raises"
    THEN Ran(s, FALSE, TRUE)
    ELSE Ran(mark_action_computed(s, action.key, now), TRUE,
             res = "none" \/ push = "raises")

\* the try block of run_action in the matplotlib generation: a spread matrix
\* takes the raptor table under a try of its own; a None result is logged and
\* returned from; the result is stored and handed to the view; the pipeline
\* state is never written
RunBodyMpl(s, action, res, push, now) ==
    CASE action.view_type = "spread_matrix" -> Ran(s, FALSE, FALSE)
      [] OTHER ->
            IF res = "raises"
            THEN Ran(s, FALSE, TRUE)
            ELSE IF res = "none"
                 THEN Ran(s, FALSE, FALSE)
                 ELSE Ran(s, FALSE, push = "raises")

\* run_action of the generation g
RunBody(g, s, action, res, push, now) ==
    CASE g = "app8" -> RunBody8(s, action, res, push, now)
      [] g = "app7" -> RunBody7(s, action, res, push, now)
      [] OTHER -> RunBodyMpl(s, action, res, push, now)

\* history of the last handler: its name, the action it ran, how it ended
\* ("guard", "ok", "error", "done") and the actions that were stale before it
Log(op, key, outcome) ==
    [op |-> op, key |-> key, outcome |-> outcome,
     stale |-> {k \in ActionKeys(gen) : is_action_stale(state, k)}]

\* MainWindow.set_underlyings_df
set_underlyings_df(now) ==
    /\ gen \in {"app8", "app7", "mpl8"}
    /\ underlyings_df' = "rows"
    /\ state' = mark_underlyings_loaded(state, now)
    /\ clock' = now
    /\ ran' = Log("set_underlyings_df", "", "done")
    /\ UNCHANGED <<gen, raptor_df, modelVars, viewVars>>

\* MainWindow.set_raptor_df: the table handed over was built since the last
\* event (app.py builds 1,000,000 rows for it), so the clock has moved on
set_raptor_df(frame) ==
    /\ gen \in {"app8", "app7", "mpl8"}
    /\ clock < MaxClock
    /\ raptor_df' = frame
    /\ clock' = clock + 1
    /\ state' = mark_raptor_loaded(state, clock')
    /\ ran' = Log("set_raptor_df", "", "done")
    /\ UNCHANGED <<gen, underlyings_df, modelVars, viewVars>>

\* MainWindow.run_action
run_action(action, res, push, now) ==
    /\ gen \in {"app8", "app7", "mpl8"}
    /\ IF guard_raptor_fails(raptor_df)
       THEN /\ UNCHANGED <<state, clock>>
            /\ ran' = Log("run_action", action.key, "guard")
       ELSE LET r == RunBody(gen, state, action, res, push, now)
            IN  /\ state' = r.state
                /\ clock' = IF r.read THEN now ELSE clock
                /\ ran' = Log("run_action", action.key, IF r.error THEN "error" ELSE "ok")
    /\ UNCHANGED <<gen, underlyings_df, raptor_df, modelVars, viewVars>>

\* the loop of run_all: run_action for every action in order; tick says by
\* how much the clock moves before each of its readings
RECURSIVE RunAllLoop(_, _, _, _, _, _, _)
RunAllLoop(g, s, c, r, actions, how, tick) ==
    IF actions = <<>>
    THEN [state |-> s, clock |-> c]
    ELSE LET a == Head(actions)
             b == RunBody(g, s, a, how[a.key].res, how[a.key].push, c + tick)
         IN  IF guard_raptor_fails(r)
             THEN RunAllLoop(g, s, c, r, Tail(actions), how, tick)
             ELSE RunAllLoop(g, b.state, IF b.read THEN c + tick ELSE c, r,
                             Tail(actions), how, tick)

\* MainWindow.run_all
run_all(how, tick) ==
    /\ gen \in {"app8", "app7", "mpl8"}
    /\ clock + tick * Len(get_default_actions(gen)) <= MaxClock
    /\ IF underlyings_df = "None" \/ raptor_df = "None"
       THEN /\ UNCHANGED <<state, clock>>
            /\ ran' = Log("run_all", "", "guard")
       ELSE LET r == RunAllLoop(gen, state, clock, raptor_df, get_default_actions(gen),
                                how, tick)
            IN  /\ state' = r.state
                /\ clock' = r.clock
                /\ ran' = Log("run_all", "", "done")
    /\ UNCHANGED <<gen, underlyings_df, raptor_df, modelVars, viewVars>>

InitPipeline ==
    /\ gen \in {"app8", "app7", "mpl8"}
    /\ clock = 0
    /\ underlyings_df = "None"
    /\ raptor_df = "None"
    /\ state = PipelineState
    /\ ran = [op |-> "init", key |-> "", outcome |-> "done", stale |-> {}]
    /\ col_filters = EmptyDtype
    /\ global_search = <<>>
    /\ df = NoTable
    /\ view = NoTable
    /\ filters = <<>>
    /\ last = [op |-> "init", raised |-> FALSE, before |-> 0]
    /\ ViewAsConstructed

NextPipeline ==
    \/ \E now \in Readings(clock) : set_underlyings_df(now)
    \/ \E frame \in {"empty", "rows"} : set_raptor_df(frame)
    \/ \E action \in Actions(gen), res \in {"raises", "none", "frame"},
          push \in {"ok", "raises"},
          now \in Readings(clock) :
            run_action(action, res, push, now)
    \/ \E how \in [ActionKeys(gen) -> RunCases], tick \in {0, 1} : run_all(how, tick)

SpecPipeline == InitPipeline /\ [][NextPipeline]_vars

-----------------------------------------------------------------------------
(* DataView (ui/data_view.py) with its debounce timer, and its DataTable     *)
(* (ui/data_table.py).  "view7" is the Raptor view of underlying_app(7),     *)
(* "view8" the Raptor view of the matplotlib generation, which is created    *)
(* with manual_search_apply=True.  The data/model.py of the matplotlib       *)
(* generation is not among the sources: its set_df, set_col_filter,          *)
(* set_global_search and clear_filters are taken to be those of              *)
(* underlying_app(7), and no quick filter is ever set.                       *)

ViewGens == {"view7", "view8"}

\* the manual_search_apply argument the main window gives its Raptor view
manual_search_apply(g) == g = "view8"

\* DataView.DEBOUNCE_MS
DEBOUNCE_MS == 250

\* the step by which time passes in the model: half a debounce window
Step == DEBOUNCE_MS \div 2

\* how many timers the after() queue of the model holds
MaxTimers == 2

\* the row_limit of the view (500 for the Raptor view), scaled to the samples
RowLimit == 2

\* the longest run of keystrokes the history counts
Burst == 5

\* quotes: issuer (object), strike (int64); more rows than RowLimit
Quotes ==
    Table(<<"issuer", "strike">>,
          [c \in {"issuer", "strike"} |-> IF c = "strike" THEN "int64" ELSE "object"],
          << Row(0, [c \in {"issuer", "strike"} |-> IF c = "strike" THEN Num(3) ELSE Str(<<"C", "o">>)]),
             Row(1, [c \in {"issuer", "strike"} |-> IF c = "strike" THEN Num(1) ELSE Str(<<"o", "k">>)]),
             Row(2, [c \in {"issuer", "strike"} |-> IF c = "strike" THEN Num(2) ELSE Str(<<"k", "c", "o">>)]),
             Row(3, [c \in {"issuer", "strike"} |-> IF c = "strike" THEN Num(0) ELSE Str(<<"c">>)]) >>)

ViewTables == {People, Quotes}

\* trades: issuer (object: None and two names that differ in case only),
\* strike (int64 with two equal values)
Trades ==
    Table(<<"issuer", "strike">>,
          [c \in {"issuer", "strike"} |-> IF c = "strike" THEN "int64" ELSE "object"],
          << Row(0, [c \in {"issuer", "strike"} |-> IF c = "strike" THEN Num(1) ELSE NullV]),
             Row(1, [c \in {"issuer", "strike"} |-> IF c = "strike" THEN Num(1) ELSE Str(<<"C", "o">>)]),
             Row(2, [c \in {"issuer", "strike"} |-> IF c = "strike" THEN Num(2) ELSE Str(<<"c", "o">>)]) >>)

ViewSelections == {All, <<"C", "o">>}

\* what the search entry can hold after a keystroke
ViewSearches == {<<>>, <<"k", " ">>}

ViewColumns == {"name", "age", "issuer", "strike"}

\* the smallest timer id that is not in the queue q (Tk never hands out an
\* id that is still scheduled)
FreeId(q) ==
    CHOOSE j \in 1..(MaxTimers + 1) :
        j \notin DOMAIN q /\ \A i \in 1..(j - 1) : i \in DOMAIN q

\* self.after(ms, callback): the queue with the new timer, and its id
after(q, ms) ==
    [queue |-> [j \in DOMAIN q \cup {FreeId(q)} |-> IF j \in DOMAIN q THEN q[j] ELSE ms],
     id |-> FreeId(q)]

\* a cancel that leaves the timer in the queue
after_cancel_keeps_timer(q, id) == q

\* self.after_cancel(id)
after_cancel(q, id) == [j \in DOMAIN q \ {id} |-> q[j]]

\* _debounced_apply scheduling a timer and leaving the pending one alone
debounced_apply_without_cancel(q, job) == after(q, DEBOUNCE_MS)

\* DataView._debounced_apply: the pending timer, if any, is cancelled and a
\* new one is scheduled
debounced_apply(q, job) ==
    after(IF job # 0 THEN after_cancel(q, job) ELSE q, DEBOUNCE_MS)

\* the timer _debounced_apply scheduled is in the queue and _pending_job
\* names it
Schedule(s) ==
    /\ s.id <= MaxTimers
    /\ timers' = s.queue
    /\ pending_job' = s.id

\* a clear that empties the tree and forgets to drop the table
table_clear_keeps_frame ==
    [df |-> table.df, sort_col |-> "", sort_asc |-> TRUE, heading |-> EmptyDtype,
     last_cell_value |-> NoneV, selection |-> {}]

\* DataTable.clear
table_clear ==
    [df |-> NoTable, sort_col |-> "", sort_asc |-> TRUE, heading |-> EmptyDtype,
     last_cell_value |-> NoneV, selection |-> {}]

\* DataTable._heading_text(col) when the sort column is sort_col ("" for
\* None): the name of the column and, on the sort column, a blank and the
\* direction glyph ("^" stands for the up-pointing triangle U+25B2, "v" for
\* the down-pointing triangle U+25BC)
heading_text(sort_col, sort_asc, col) ==
    IF sort_col # col THEN <<col>> ELSE <<col, " ", IF sort_asc THEN "^" ELSE "v">>

\* a set_dataframe that keeps the sort column and its direction
table_set_dataframe_keeps_sort(d) ==
    [df |-> d, sort_col |-> table.sort_col, sort_asc |-> table.sort_asc,
     heading |-> [c \in Columns(d) |-> heading_text(table.sort_col, table.sort_asc, c)],
     last_cell_value |-> NoneV, selection |-> {}]

\* DataTable.set_dataframe: the table is kept, the sort state and the last
\* clicked cell are reset, the columns and the rows of the tree are rebuilt
table_set_dataframe(d) ==
    [df |-> d, sort_col |-> "", sort_asc |-> TRUE,
     heading |-> [c \in Columns(d) |-> heading_text("", TRUE, c)],
     last_cell_value |-> NoneV, selection |-> {}]

\* df.head(n)
head(d, n) == [d EXCEPT !.rows = SubSeq(@, 1, IF Len(@) < n THEN Len(@) ELSE n)]

\* DataView._refresh (and TablePlotView._refresh): what the DataTable holds
\* for the view v of the model
refresh(v) ==
    IF v.none THEN table_clear
    ELSE IF Len(v.rows) > RowLimit THEN table_set_dataframe(head(v, RowLimit))
    ELSE table_set_dataframe(v)

\* the code point of a character of the model's alphabet
Ord(ch) ==
    CASE ch = " " -> 32 [] ch = "(" -> 40 [] ch = "-" -> 45 [] ch = "." -> 46
      [] ch \in Digits -> 48 + DigitVal(ch)
      [] ch = ":" -> 58 [] ch = "A" -> 65 [] ch = "C" -> 67 [] ch = "a" -> 97
      [] ch = "c" -> 99 [] ch = "k" -> 107 [] ch = "l" -> 108 [] ch = "o" -> 111

RECURSIVE TextLt(_, _)
\* a < b for two Python strings
TextLt(a, b) ==
    IF b = <<>> THEN FALSE
    ELSE IF a = <<>> THEN TRUE
    ELSE IF Head(a) # Head(b) THEN Ord(Head(a)) < Ord(Head(b))
    ELSE TextLt(Tail(a), Tail(b))

\* the sort key of one element of column col, by the dtype of the column
SortKey(t, col, c) ==
    IF IsDatetimeDtype(t, col) THEN CoerceDatetime(c)
    ELSE IF IsNumericDtype(t, col) THEN CoerceNumeric(c)
    ELSE Str(Lower(AsString(c, t.dtype[col])))

\* x < y for two keys of one column, neither of them null
KeyLt(x, y) ==
    CASE x.k = "num" -> x.n < y.n
      [] x.k = "ts" -> TsLt(x, y)
      [] OTHER -> TextLt(x.txt, y.txt)

\* an order that ignores the direction of the sort
InOrderAscending(x, y, asc) ==
    IF IsNull(y) THEN TRUE
    ELSE IF IsNull(x) THEN FALSE
    ELSE ~KeyLt(y, x)

\* whether key x may stand before key y in
\* key.sort_values(ascending=asc, na_position="last")
InOrder(x, y, asc) ==
    IF IsNull(y) THEN TRUE
    ELSE IF IsNull(x) THEN FALSE
    ELSE IF asc THEN ~KeyLt(y, x) ELSE ~KeyLt(x, y)

\* a sort that leaves out the rows whose key is null
sort_values_without_nulls(t, col, asc) ==
    LET live == Keep(t.rows, {t.rows[i].id : i \in {k \in DOMAIN t.rows :
                                ~IsNull(SortKey(t, col, t.rows[k].cells[col]))}})
    IN  {[i \in DOMAIN live |-> live[p[i]]] :
            p \in {q \in [DOMAIN live -> DOMAIN live] :
                     /\ \A i, j \in DOMAIN live : i # j => q[i] # q[j]
                     /\ \A i, j \in DOMAIN live :
                           i < j => InOrder(SortKey(t, col, live[q[i]].cells[col]),
                                            SortKey(t, col, live[q[j]].cells[col]), asc)}}

\* self._df.loc[key.sort_values(ascending=asc, na_position="last").index]:
\* the row orders the sort can give; sort_values is called without kind, so
\* rows with equal keys can come out in any order
sort_values(t, col, asc) ==
    {[i \in DOMAIN t.rows |-> t.rows[p[i]]] :
        p \in {q \in [DOMAIN t.rows -> DOMAIN t.rows] :
                 /\ \A i, j \in DOMAIN t.rows : i # j => q[i] # q[j]
                 /\ \A i, j \in DOMAIN t.rows :
                       i < j => InOrder(SortKey(t, col, t.rows[q[i]].cells[col]),
                                        SortKey(t, col, t.rows[q[j]].cells[col]), asc)}}

\* a header click that always sorts ascending
AscOnEveryClick(tb, col) == TRUE

\* the direction a click on the header of col gives
Asc(tb, col) == IF tb.sort_col = col THEN ~tb.sort_asc ELSE TRUE

\* a run of debounced keystrokes: how many there were, the time since the
\* first, the recomputes since the first, and what the widgets held at the
\* last.  A keystroke later than one debounce window after the first begins
\* a new run.
Keystroke(b, fv, sv) ==
    IF b.n = 0 \/ b.elapsed >= DEBOUNCE_MS
    THEN [n |-> 1, elapsed |-> 0, fired |-> 0, vars |-> fv, search |-> sv]
    ELSE [b EXCEPT !.n = IF @ < Burst THEN @ + 1 ELSE @, !.vars = fv, !.search = sv]

\* the end of a handler of the DataView that called the model: _refresh()
\* runs when the call returned, and not when it raised
Show(op, out) ==
    /\ Load(op, out)
    /\ table' = IF out.raised THEN table ELSE refresh(out.m.view)
    /\ ui' = [op |-> op, raised |-> out.raised]

\* the comboboxes _build_filter_area makes for the table d: one per
\* non-numeric column, each holding "All"
build_filter_area(d) == [c \in SearchColumns(d) |-> All]

\* DataView.set_dataframe
set_dataframe(t) ==
    /\ gen \in ViewGens
    /\ Show("set_dataframe", model_set_df(Model, t))
    /\ filter_vars' = build_filter_area(t)
    /\ search_var' = <<>>
    /\ burst' = NoBurst
    /\ UNCHANGED <<gen, filters, search_buffer, timers, pending_job>>
    /\ UNCHANGED <<pipeVars, clipboard>>

\* DataView._on_filters_resize with a width that changes the wrap
on_filters_resize ==
    /\ gen \in ViewGens
    /\ ~df.none
    /\ filter_vars' = build_filter_area(df)
    /\ search_var' = <<>>
    /\ ui' = [op |-> "on_filters_resize", raised |-> FALSE]
    /\ burst' = NoBurst
    /\ UNCHANGED <<gen, modelVars, search_buffer, timers, pending_job, table>>
    /\ UNCHANGED <<pipeVars, clipboard>>

\* a keystroke in the combobox of col, which then holds text:
\* DataView._on_col_typed
on_col_typed(col, text) ==
    /\ gen \in ViewGens
    /\ col \in DOMAIN filter_vars
    /\ filter_vars' = [filter_vars EXCEPT ![col] = text]
    /\ Schedule(debounced_apply(timers, pending_job))
    /\ burst' = Keystroke(burst, filter_vars', search_var)
    /\ ui' = [op |-> "on_col_typed", raised |-> FALSE]
    /\ UNCHANGED <<gen, modelVars, search_var, search_buffer, table>>
    /\ UNCHANGED <<pipeVars, clipboard>>

\* a keystroke in the search entry, which then holds text, where KeyRelease
\* is bound to _debounced_apply
on_search_typed(text) ==
    /\ gen \in ViewGens
    /\ ~manual_search_apply(gen)
    /\ ~df.none
    /\ search_var' = text
    /\ Schedule(debounced_apply(timers, pending_job))
    /\ burst' = Keystroke(burst, filter_vars, search_var')
    /\ ui' = [op |-> "on_search_typed", raised |-> FALSE]
    /\ UNCHANGED <<gen, modelVars, filter_vars, search_buffer, table>>
    /\ UNCHANGED <<pipeVars, clipboard>>

\* a keystroke in the search entry where KeyRelease is bound to
\* DataView._on_search_buffer
on_search_buffer(text) ==
    /\ gen \in ViewGens
    /\ manual_search_apply(gen)
    /\ ~df.none
    /\ search_var' = text
    /\ search_buffer' = search_var'
    /\ ui' = [op |-> "on_search_buffer", raised |-> FALSE]
    /\ burst' = NoBurst
    /\ UNCHANGED <<gen, modelVars, filter_vars, timers, pending_job, table>>
    /\ UNCHANGED <<pipeVars, clipboard>>

\* a choice from the dropdown of col: DataView._on_col_selected
on_col_selected(col, selected) ==
    /\ gen \in ViewGens
    /\ col \in DOMAIN filter_vars
    /\ filter_vars' = [filter_vars EXCEPT ![col] = selected]
    /\ Show("on_col_selected", model_set_col_filter(Model, col, selected))
    /\ burst' = NoBurst
    /\ UNCHANGED <<gen, filters, search_var, search_buffer, timers, pending_job>>
    /\ UNCHANGED <<pipeVars, clipboard>>

RECURSIVE ApplyVars(_, _, _)
\* the loop of _apply_filters_now past one call: nothing catches an
\* exception of set_col_filter
ApplyNext(out, fv, rest) ==
    IF out.raised THEN out ELSE ApplyVars(out.m, fv, rest)

\* the loop over self._filter_vars.items(), cs being the columns still to do
ApplyVars(m, fv, cs) ==
    IF cs = <<>> THEN Returns(m)
    ELSE IF Head(cs) \notin DOMAIN fv THEN ApplyVars(m, fv, Tail(cs))
    ELSE ApplyNext(model_set_col_filter(m, Head(cs), fv[Head(cs)]), fv, Tail(cs))

\* the call of set_global_search that follows the loop
ThenSearch(out, text) ==
    IF out.raised THEN out ELSE model_set_global_search(out.m, text)

\* the timer id comes due and Tk calls DataView._apply_filters_now
apply_filters_now(id) ==
    /\ gen \in ViewGens
    /\ id \in DOMAIN timers
    /\ timers[id] = 0
    /\ timers' = after_cancel(timers, id)
    /\ pending_job' = 0
    /\ Show("apply_filters_now", ThenSearch(ApplyVars(Model, filter_vars, df.cols), search_var))
    /\ burst' = IF burst.n = 0 THEN burst ELSE [burst EXCEPT !.fired = @ + 1]
    /\ UNCHANGED <<gen, filters, filter_vars, search_var, search_buffer>>
    /\ UNCHANGED <<pipeVars, clipboard>>

\* the Apply button: DataView._apply_search_only
apply_search_only ==
    /\ gen \in ViewGens
    /\ manual_search_apply(gen)
    /\ ~df.none
    /\ Show("apply_search_only", model_set_global_search(Model, search_buffer))
    /\ burst' = NoBurst
    /\ UNCHANGED <<gen, filters, filter_vars, search_var, search_buffer, timers, pending_job>>
    /\ UNCHANGED <<pipeVars, clipboard>>

\* the Clear button: DataView._clear_filters
view_clear_filters ==
    /\ gen \in ViewGens
    /\ ~df.none
    /\ Show("clear_filters", model_clear_filters(Model))
    /\ search_var' = <<>>
    /\ search_buffer' = IF manual_search_apply(gen) THEN <<>> ELSE search_buffer
    /\ filter_vars' = [c \in DOMAIN filter_vars |-> All]
    /\ burst' = NoBurst
    /\ UNCHANGED <<gen, filters, timers, pending_job>>
    /\ UNCHANGED <<pipeVars, clipboard>>

\* a click on the header of col: DataTable._on_heading_click
on_heading_click(col) ==
    /\ gen \in ViewGens
    /\ IF table.df.none \/ col \notin Columns(table.df)
       THEN UNCHANGED table
       ELSE \E rows \in sort_values(table.df, col, Asc(table, col)) :
               table' = [df |-> [table.df EXCEPT !.rows = rows],
                         sort_col |-> col, sort_asc |-> Asc(table, col),
                         heading |-> [c \in Columns(table.df) |->
                                         heading_text(col, Asc(table, col), c)],
                         last_cell_value |-> table.last_cell_value,
                         selection |-> {}]
    /\ ui' = [op |-> "on_heading_click", raised |-> FALSE]
    /\ burst' = NoBurst
    /\ UNCHANGED <<gen, modelVars, filter_vars, search_var, search_buffer, timers, pending_job>>
    /\ UNCHANGED <<pipeVars, clipboard>>

\* DataTable._format_value(v): the text of a value of a column of dtype dt in
\* the tree
format_value(c, dt) ==
    CASE c.k = "ts" -> Strftime(c)
      [] c.k = "num" -> (IF dt = "int64" THEN IntText(c.n) ELSE FloatText(c.n))
      [] c.k = "str" -> c.txt
      [] OTHER -> <<>>

\* the text _on_ctrl_c builds from the selected items of the tree: the values
\* of a row joined by tabs, the rows joined by newlines, in the order of the
\* tree
selection_block(tb) ==
    LET RECURSIVE Join(_, _)
        Join(sep, parts) ==
            IF parts = <<>> THEN <<>>
            ELSE IF Len(parts) = 1 THEN parts[1]
            ELSE parts[1] \o <<sep>> \o Join(sep, Tail(parts))
        value(i, k) == format_value(tb.df.rows[i].cells[tb.df.cols[k]], tb.df.dtype[tb.df.cols[k]])
        line(i) == Join("\t", [k \in 1..Len(tb.df.cols) |-> value(i, k)])
        sel == {i \in DOMAIN tb.df.rows : i \in tb.selection}
        nth(n) == CHOOSE i \in sel : Cardinality({j \in sel : j <= i}) = n
    IN  Join("\n", [n \in 1..Cardinality(sel) |-> line(nth(n))])

\* DataTable._on_single_click: a press of the mouse button over row i (0: no
\* row under the pointer) and column col of the tree; a plain press selects
\* the row, a press with Control toggles it (the bindings of ttk.Treeview
\* with selectmode="extended")
on_single_click(i, col, how) ==
    /\ gen = "view8"
    /\ ~table.df.none
    /\ i <= Len(table.df.rows)
    /\ col \in Columns(table.df)
    /\ table' = IF i = 0 THEN table
                ELSE [table EXCEPT
                        !.last_cell_value =
                            Str(format_value(table.df.rows[i].cells[col], table.df.dtype[col])),
                        !.selection = IF how = "plain" THEN {i}
                                      ELSE IF i \in @ THEN @ \ {i} ELSE @ \cup {i}]
    /\ ui' = [op |-> "on_single_click", raised |-> FALSE]
    /\ burst' = NoBurst
    /\ UNCHANGED <<gen, modelVars, filter_vars, search_var, search_buffer, timers, pending_job>>
    /\ UNCHANGED <<pipeVars, clipboard>>

\* the arrow keys on the tree (a binding of ttk.Treeview, no handler of the
\* DataTable runs): row i becomes the selection
tree_keynav(i) ==
    /\ gen = "view8"
    /\ ~table.df.none
    /\ i \in DOMAIN table.df.rows
    /\ table' = [table EXCEPT !.selection = {i}]
    /\ ui' = [op |-> "tree_keynav", raised |-> FALSE]
    /\ burst' = NoBurst
    /\ UNCHANGED <<gen, modelVars, filter_vars, search_var, search_buffer, timers, pending_job>>
    /\ UNCHANGED <<pipeVars, clipboard>>

\* DataTable._on_ctrl_c, with _copy_to_clipboard
on_ctrl_c ==
    /\ gen = "view8"
    /\ IF table.last_cell_value # NoneV
       THEN /\ clipboard' = table.last_cell_value
            /\ UNCHANGED table
       ELSE IF table.selection = {}
       THEN UNCHANGED <<table, clipboard>>
       ELSE /\ clipboard' = Str(selection_block(table))
            /\ table' = [table EXCEPT !.last_cell_value = Str(selection_block(table))]
    /\ ui' = [op |-> "on_ctrl_c", raised |-> FALSE]
    /\ burst' = NoBurst
    /\ UNCHANGED <<gen, modelVars, filter_vars, search_var, search_buffer, timers, pending_job>>
    /\ UNCHANGED pipeVars

\* DataTable.set_dataframe(d), called by the owner of the table
dt_set_dataframe(d) ==
    /\ gen \in ViewGens
    /\ table' = table_set_dataframe(d)
    /\ ui' = [op |-> "dt_set_dataframe", raised |-> FALSE]
    /\ UNCHANGED <<gen, modelVars, filter_vars, search_var, search_buffer, timers, pending_job, burst>>
    /\ UNCHANGED <<pipeVars, clipboard>>

\* DataTable.clear(), called by the owner of the table; the history keeps
\* whether the table held a frame
dt_clear ==
    /\ gen \in ViewGens
    /\ table' = table_clear
    /\ ui' = [op |-> "dt_clear", raised |-> FALSE, populated |-> ~table.df.none]
    /\ UNCHANGED <<gen, modelVars, filter_vars, search_var, search_buffer, timers, pending_job, burst>>
    /\ UNCHANGED <<pipeVars, clipboard>>

\* Step milliseconds pass; a timer that is due runs before more time passes
Tick ==
    /\ gen \in ViewGens
    /\ \A j \in DOMAIN timers : timers[j] > 0
    /\ timers' = [j \in DOMAIN timers |-> IF timers[j] > Step THEN timers[j] - Step ELSE 0]
    /\ burst' = [burst EXCEPT !.elapsed =
                    IF burst.n = 0 THEN 0
                    ELSE IF @ + Step < DEBOUNCE_MS THEN @ + Step ELSE DEBOUNCE_MS]
    /\ UNCHANGED <<gen, modelVars, filter_vars, search_var, search_buffer, pending_job, table, ui>>
    /\ UNCHANGED <<pipeVars, clipboard>>

InitView ==
    /\ gen \in ViewGens
    /\ col_filters = EmptyDtype
    /\ global_search = <<>>
    /\ df = NoTable
    /\ view = NoTable
    /\ filters = <<>>
    /\ last = [op |-> "init", raised |-> FALSE, before |-> 0]
    /\ clock = 0
    /\ underlyings_df = "None"
    /\ raptor_df = "None"
    /\ state = PipelineState
    /\ ran = [op |-> "init", key |-> "", outcome |-> "done", stale |-> {}]
    /\ ViewAsConstructed

\* the filter area of a DataView: typing, choosing, Apply, Clear, resizing,
\* new tables, and the debounce timer
NextView ==
    \/ \E t \in ViewTables : set_dataframe(t)
    \/ on_filters_resize
    \/ \E col \in ViewColumns, text \in {All, <<"c", "o">>, <<"(">>} : on_col_typed(col, text)
    \/ \E text \in ViewSearches : on_search_typed(text)
    \/ \E text \in ViewSearches : on_search_buffer(text)
    \/ \E col \in ViewColumns, selected \in ViewSelections : on_col_selected(col, selected)
    \/ \E id \in 1..MaxTimers : apply_filters_now(id)
    \/ apply_search_only
    \/ view_clear_filters
    \/ Tick

SpecView == InitView /\ [][NextView]_vars

\* the table of a DataView: new tables, dropdown filters, Clear, and clicks
\* on the column headers
NextTable ==
    \/ \E t \in ViewTables \cup {Events, Trades} : set_dataframe(t)
    \/ \E col \in ViewColumns, selected \in ViewSelections : on_col_selected(col, selected)
    \/ view_clear_filters
    \/ \E col \in ViewColumns \cup {"ev", "tag"} : on_heading_click(col)

SpecTable == InitView /\ [][NextTable]_vars

\* the tree of a DataTable: new tables, clicks on its cells and the copy
\* keystroke
NextCopy ==
    \/ \E t \in {People, Trades} : set_dataframe(t)
    \/ \E i \in 0..RowLimit, col \in ViewColumns, how \in {"plain", "ctrl"} :
          on_single_click(i, col, how)
    \/ \E i \in 1..RowLimit : tree_keynav(i)
    \/ on_ctrl_c

SpecCopy == InitView /\ [][NextCopy]_vars

\* a DataTable on its own: its owner sets frames of any length and clears
\* it, the user clicks on the column headers
NextGrid ==
    \/ \E t \in ViewTables \cup {Events, Trades}, n \in 0..(RowLimit + 2) :
          dt_set_dataframe(head(t, n))
    \/ dt_clear
    \/ \E col \in ViewColumns \cup {"ev", "tag"} : on_heading_click(col)

SpecGrid == InitView /\ [][NextGrid]_vars

\* a DataView whose table is sorted and clicked between the events that
\* refresh it: a new table, a choice in a filter dropdown, the search text
\* with its Apply button, and Clear
NextRefresh ==
    \/ \E t \in {People, Trades} : set_dataframe(t)
    \/ \E col \in ViewColumns, selected \in ViewSelections : on_col_selected(col, selected)
    \/ \E text \in ViewSearches : on_search_buffer(text)
    \/ apply_search_only
    \/ view_clear_filters
    \/ \E col \in ViewColumns : on_heading_click(col)
    \/ \E i \in 0..RowLimit, col \in ViewColumns : on_single_click(i, col, "plain")

SpecRefresh == InitView /\ [][NextRefresh]_vars

-----------------------------------------------------------------------------
(* Claims about the two DataModels, checked under SpecModel *)

\* whether the row id passes spec f when f is evaluated against table t
PassesSpec(t, f, id) ==
    \/ f.column \notin Columns(t)
    \/ apply_single_filter(t, f).raised
    \/ id \in Ids(apply_single_filter(t, f).rows)

\* Survivors(d, fs)[i]: the ids left after the first i specs, spec i being
\* evaluated against the table of the ids left after the first i - 1
Survivors(d, fs) ==
    LET S[i \in 0..Len(fs)] ==
            IF i = 0 THEN Ids(d.rows)
            ELSE {id \in S[i - 1] :
                    PassesSpec([d EXCEPT !.rows = Keep(d.rows, S[i - 1])], fs[i], id)}
    IN  S

\* C1: apply_filters yields the fold of the canonical table through the specs
\* in list order, each spec evaluated against the intermediate table left by
\* the one before it: a row of df is in the view iff it passes every spec in
\* sequence, and the view keeps the canonical order.
C1_FoldInListOrder ==
    (gen = "main" /\ ~df.none) =>
        /\ ~view.none
        /\ \A i \in 1..Len(df.rows) :
              (df.rows[i].id \in Ids(view.rows))
                  <=> (\A j \in 1..Len(filters) : df.rows[i].id \in Survivors(df, filters)[j])
        /\ view.rows = Keep(df.rows, Ids(view.rows))

\* a view holding a row that the second spec, evaluated against the canonical
\* table instead of the intermediate one, would have dropped
C1_Witness ==
    /\ gen = "main" /\ ~df.none /\ Len(filters) = 2
    /\ \E i \in 1..Len(view.rows) : ~PassesSpec(df, filters[2], view.rows[i].id)

\* C2: after any sequence of set_df, add_filter, remove_filter_at and
\* clear_filters the view is what applying the current filter list to the
\* current df from scratch gives (and there is no view without a df).
C2_ViewFromScratch ==
    gen = "main" =>
        /\ view.none <=> df.none
        /\ view = apply_filters(df, filters, NoTable).t

\* a removal that brought rows back while another filter stayed active
C2_Witness ==
    /\ gen = "main" /\ last.op = "remove_filter_at"
    /\ Len(filters) = 1 /\ ~view.none
    /\ Len(view.rows) > last.before /\ Len(view.rows) < Len(df.rows)

\* C3: right after clear_filters the view holds exactly the rows of the
\* canonical table, in canonical order, whatever filters, column tokens and
\* searches came before.
C3_ClearRestoresTable ==
    (last.op = "clear_filters" /\ ~df.none) =>
        /\ ~last.raised
        /\ ~view.none /\ view.cols = df.cols /\ view.rows = df.rows

\* a clear that brought rows back
C3_Witness ==
    /\ last.op = "clear_filters" /\ ~df.none
    /\ last.before < Len(df.rows) /\ Len(view.rows) = Len(df.rows)

\* FilterRaisesAt(i): spec i of the list raises against its intermediate table
FilterRaisesAt(i) ==
    LET t == FilterLoop(df, SubSeq(filters, 1, i - 1)).t
    IN  filters[i].column \in Columns(t) /\ apply_single_filter(t, filters[i]).raised

\* C4: a spec whose evaluation raises does not make apply_filters raise, and
\* the view is the one the list without that spec gives: the spec counts as
\* absent and the specs after it are still applied.
C4_RaisingSpecIsAbsent ==
    (gen = "main" /\ ~df.none) =>
        /\ ~last.raised
        /\ \A i \in 1..Len(filters) :
              FilterRaisesAt(i) => view = apply_filters(df, Pop(filters, i - 1), NoTable).t

\* a raising first spec followed by a spec that narrowed the view
C4_Witness ==
    /\ gen = "main" /\ ~df.none /\ Len(filters) = 2
    /\ FilterRaisesAt(1) /\ ~FilterRaisesAt(2)
    /\ Len(view.rows) < Len(df.rows) /\ Len(view.rows) > 0

-----------------------------------------------------------------------------
(* PipelineState claims *)

\* C5: for every action key, is_action_stale is true exactly when the raptor
\* table has a load timestamp, the key has a compute timestamp and the load
\* timestamp is strictly greater; it is false when the raptor table was never
\* loaded or the key was never computed.
C5_StaleDefinition ==
    \A k \in ActionKeys(gen) :
        /\ is_action_stale(state, k) <=>
              /\ is_raptor_loaded(state)
              /\ is_action_ready(state, k)
              /\ state.actions_computed_at[k] < state.raptor_loaded_at.at
        /\ (~is_raptor_loaded(state) \/ ~is_action_ready(state, k)) => ~is_action_stale(state, k)

\* an action computed at the very reading of the load: loaded, computed, not stale
C5_Witness ==
    \E k \in ActionKeys(gen) :
        /\ is_raptor_loaded(state)
        /\ is_action_ready(state, k)
        /\ state.actions_computed_at[k] = state.raptor_loaded_at.at
        /\ \E j \in ActionKeys(gen) : is_action_stale(state, j)

\* C6: once an action has been computed, a reload of the raptor table makes it
\* stale, it stays stale while it is not recomputed, and a recompute after the
\* reload makes it not stale again.
C6_ReloadStalesRecomputeClears ==
    [][\A k \in ActionKeys(gen) :
          /\ (is_action_ready(state, k) /\ ran'.op = "set_raptor_df")
                => is_action_stale(state', k)
          /\ (is_action_stale(state, k)
                /\ state'.actions_computed_at = state.actions_computed_at)
                => is_action_stale(state', k)
          /\ (is_action_stale(state, k)
                /\ ran'.op = "run_action" /\ ran'.key = k /\ ran'.outcome = "ok")
                => ~is_action_stale(state', k)]_vars

\* a stale action has just been recomputed and is not stale
C6_Witness ==
    /\ ran.op = "run_action"
    /\ ran.outcome = "ok"
    /\ ran.key \in ran.stale
    /\ ~is_action_stale(state, ran.key)

\* C7: a run_action that fails records no compute timestamp: the compute
\* timestamps after it are those before it, for the action and for all others.
C7_FailedRunRecordsNothing ==
    [][(ran'.op = "run_action" /\ ran'.outcome = "error")
          => state'.actions_computed_at = state.actions_computed_at]_vars


-----------------------------------------------------------------------------
(* Claims about the DataView and its DataTable, checked under SpecView and   *)
(* SpecTable                                                                 *)

\* C8: a run of up to five debounced keystrokes that all fall within one
\* debounce window (250 ms) of the first leads to one recompute and no more:
\* until the timer callback has run a timer is pending, it runs at most once,
\* and when it returned the model holds, for every combobox and for the
\* search entry, what the widgets held at the last keystroke.
C8_OneRecomputePerBurst ==
    burst.n \in 1..Burst =>
        /\ burst.fired <= 1
        /\ burst.fired = 0 => pending_job \in DOMAIN timers
        /\ (burst.fired = 1 /\ ui.op = "apply_filters_now" /\ ~ui.raised) =>
              /\ pending_job = 0
              /\ DOMAIN timers = {}
              /\ \A c \in DOMAIN burst.vars :
                    col_filters[c] = (IF burst.vars[c] # <<>> THEN burst.vars[c] ELSE All)
              /\ global_search = Strip(burst.search)

\* five keystrokes within one window, the one recompute done, a token typed
C8_Witness ==
    /\ burst.n = 5
    /\ burst.elapsed = DEBOUNCE_MS
    /\ burst.fired = 1
    /\ ui.op = "apply_filters_now"
    /\ ~ui.raised
    /\ \E c \in DOMAIN burst.vars : burst.vars[c] = <<"c", "o">> /\ col_filters[c] = <<"c", "o">>

\* C9: with manual_search_apply=True a non-empty search text reaches the
\* model only in _apply_search_only (the Apply button): no keystroke and no
\* debounce timer changes DataModel.global_search to a text.
C9_SearchOnlyOnApply ==
    [][(manual_search_apply(gen) /\ global_search' # global_search /\ global_search' # <<>>)
          => ui'.op = "apply_search_only"]_vars

\* C10: after a header-click sort the DataTable shows the first RowLimit rows
\* of the sorted view of the model, for one of the orders the sort can give.
C10_SortSeesFullView ==
    (ui.op = "on_heading_click" /\ ~table.df.none /\ table.sort_col \in Columns(view)) =>
        table.df.rows \in {head([view EXCEPT !.rows = rows], RowLimit).rows :
                              rows \in sort_values(view, table.sort_col, table.sort_asc)}

-----------------------------------------------------------------------------
(* Claims about the column-filter DataModel and the comparison modes,        *)
(* checked under SpecModel                                                   *)

\* C11: the view of the column-filter DataModel holds exactly the rows of the
\* canonical table whose text contains, ignoring case, every token other than
\* "All" set on a non-numeric column and, when global_search is not empty,
\* whose text in at least one non-numeric column contains the search text;
\* tokens on numeric columns remove no row.
C11_ViewIsTokensAndSearch ==
    (gen = "app7" /\ ~df.none) =>
        /\ ~view.none
        /\ view.rows =
             Keep(df.rows,
                  {r.id : r \in
                     {x \in {df.rows[i] : i \in DOMAIN df.rows} :
                        /\ \A c \in SearchColumns(df) :
                              \/ col_filters[c] \in {<<>>, All}
                              \/ RegexSearch(Lower(ColText(df, c, x)), Lower(col_filters[c]))
                        /\ \/ global_search = <<>>
                           \/ \E c \in SearchColumns(df) :
                                 RegexSearch(Lower(ColText(df, c, x)), Lower(global_search))}})

\* C12: right after set_df(table) no filtering is left, whatever was set
\* before: the FilterSpec list is empty (main.py), every column token is
\* "All" and the search text is empty (model.py), and the view is the new
\* canonical table.
C12_SetDfDisablesFiltering ==
    last.op = "set_df" =>
        /\ ~last.raised
        /\ view = df
        /\ gen = "main" => filters = <<>>
        /\ gen = "app7" =>
              /\ DOMAIN col_filters = Columns(df)
              /\ \A c \in Columns(df) : col_filters[c] = All
              /\ global_search = <<>>

\* a set_df on a model whose filters or search had narrowed the view
C12_Witness ==
    /\ last.op = "set_df"
    /\ last.before \in {1, 2}
    /\ Len(view.rows) = 3

\* C13: a "between" filter that is evaluated in numeric or datetime mode
\* keeps the same rows when value1 and value2 are swapped
C13_BetweenSwap ==
    (gen = "main" /\ ~df.none) =>
        \A i \in DOMAIN filters :
            LET f == filters[i]
                g == FilterSpec(f.column, f.op, f.value2, f.value1)
            IN  (/\ f.op = "between"
                 /\ f.column \in Columns(df)
                 /\ ModeOf(df, f) \in {"numeric", "datetime"}) =>
                    apply_single_filter(df, f) = apply_single_filter(df, g)

\* C14: on a numeric column with one null, the single filter (column, ">", "30")
\* leaves exactly the rows whose value is greater than 30
C14_GreaterThan30 ==
    (/\ gen = "main" /\ ~df.none
     /\ Len(filters) = 1
     /\ filters[1].op = ">"
     /\ filters[1].value1 = <<"3", "0">>
     /\ filters[1].column \in Columns(df)
     /\ IsNumericDtype(df, filters[1].column)
     /\ Cardinality({i \in DOMAIN df.rows : IsNull(df.rows[i].cells[filters[1].column])}) = 1) =>
        /\ ~view.none
        /\ view.rows =
             Keep(df.rows, {r.id : r \in {x \in {df.rows[i] : i \in DOMAIN df.rows} :
                                             /\ x.cells[filters[1].column].k = "num"
                                             /\ x.cells[filters[1].column].n > 30}})

C14_Witness ==
    /\ gen = "main" /\ ~df.none /\ ~view.none
    /\ filters = <<FilterSpec("age", ">", <<"3", "0">>, <<>>)>>
    /\ "age" \in Columns(df)
    /\ \E i \in DOMAIN df.rows : IsNull(df.rows[i].cells["age"])
    /\ \E i \in DOMAIN df.rows : df.rows[i].cells["age"].k = "num" /\ df.rows[i].cells["age"].n <= 30
    /\ Len(view.rows) = 1
    /\ view.rows[1].cells["age"] = Num(35)

-----------------------------------------------------------------------------
(* Claims about the DataTable: header clicks, sorting and copying, checked   *)
(* under SpecTable                                                           *)

\* C15: a click on a column header makes that column the sort column,
\* ascending if it was not the sort column and with the direction flipped if
\* it was; at every moment the header of the sort column is the column name
\* with the glyph of the current direction, and every other header is the
\* bare column name
C15_HeaderClickAndIndicator ==
    /\ [](~table.df.none =>
             /\ DOMAIN table.heading = Columns(table.df)
             /\ \A c \in Columns(table.df) :
                   table.heading[c] =
                      IF c = table.sort_col
                      THEN <<c, " ", IF table.sort_asc THEN "^" ELSE "v">>
                      ELSE <<c>>)
    /\ [][\A col \in ViewColumns \cup {"ev", "tag"} :
             (/\ on_heading_click(col)
              /\ ~table.df.none
              /\ col \in Columns(table.df)) =>
                /\ table'.sort_col = col
                /\ table'.sort_asc = (table.sort_col # col \/ ~table.sort_asc)]_vars

C15_Witness ==
    /\ ui.op = "on_heading_click"
    /\ ~table.df.none
    /\ table.sort_col = "age"
    /\ ~table.sort_asc
    /\ table.heading["age"] = <<"age", " ", "v">>
    /\ table.heading["name"] = <<"name">>

\* C16: a header-click sort is stable: two rows with equal sort keys stand
\* after the click in the order they stood in before it
C16_SortIsStable ==
    [][\A col \in ViewColumns \cup {"ev", "tag"} :
          (/\ on_heading_click(col)
           /\ ~table.df.none
           /\ col \in Columns(table.df)) =>
             \A i, j \in DOMAIN table.df.rows :
                (/\ i < j
                 /\ SortKey(table.df, col, table.df.rows[i].cells[col])
                      = SortKey(table.df, col, table.df.rows[j].cells[col])) =>
                   \E a, b \in DOMAIN table'.df.rows :
                      /\ a < b
                      /\ table'.df.rows[a].id = table.df.rows[i].id
                      /\ table'.df.rows[b].id = table.df.rows[j].id]_vars

\* C17 as stated: on a column without nulls that is sorted ascending, the
\* next click on its header leaves the rows in exactly the reverse order
C17_DescendingIsReverse ==
    [][\A col \in ViewColumns \cup {"ev", "tag"} :
          (/\ on_heading_click(col)
           /\ ~table.df.none
           /\ col \in Columns(table.df)
           /\ table.sort_col = col /\ table.sort_asc
           /\ \A i \in DOMAIN table.df.rows :
                 ~IsNull(SortKey(table.df, col, table.df.rows[i].cells[col]))) =>
             /\ Len(table'.df.rows) = Len(table.df.rows)
             /\ \A i \in DOMAIN table.df.rows :
                   table'.df.rows[i] = table.df.rows[Len(table.df.rows) + 1 - i]]_vars

\* C17 amended: the same, on a column without nulls in which no two rows
\* have equal sort keys
C17_DescendingIsReverseNoTies ==
    [][\A col \in ViewColumns \cup {"ev", "tag"} :
          (/\ on_heading_click(col)
           /\ ~table.df.none
           /\ col \in Columns(table.df)
           /\ table.sort_col = col /\ table.sort_asc
           /\ \A i \in DOMAIN table.df.rows :
                 ~IsNull(SortKey(table.df, col, table.df.rows[i].cells[col]))
           /\ \A i, j \in DOMAIN table.df.rows :
                 i # j => SortKey(table.df, col, table.df.rows[i].cells[col])
                            # SortKey(table.df, col, table.df.rows[j].cells[col])) =>
             /\ Len(table'.df.rows) = Len(table.df.rows)
             /\ \A i \in DOMAIN table.df.rows :
                   table'.df.rows[i] = table.df.rows[Len(table.df.rows) + 1 - i]]_vars

C17_Witness ==
    /\ ui.op = "on_heading_click"
    /\ ~table.df.none
    /\ table.sort_col = "strike" /\ ~table.sort_asc
    /\ Len(table.df.rows) = RowLimit
    /\ table.df.rows[1].cells["strike"] = Num(3)
    /\ table.df.rows[RowLimit].cells["strike"].n < 3

\* C18: after a header-click sort, in either direction and on a column of
\* any type, no row with a null value stands before a row with a value
C18_NullsLast ==
    (/\ ui.op = "on_heading_click"
     /\ ~table.df.none
     /\ table.sort_col \in Columns(table.df)) =>
        \A i, j \in DOMAIN table.df.rows :
           (i < j /\ IsNull(table.df.rows[i].cells[table.sort_col])) =>
              IsNull(table.df.rows[j].cells[table.sort_col])

-----------------------------------------------------------------------------
(* Claim about copying from the DataTable, checked under SpecCopy            *)

\* C19: the copy keystroke puts on the clipboard the tab/newline-joined block
\* of the selected rows when more than one row is selected, and the text of
\* the last clicked cell otherwise; a single click remembers the text of the
\* clicked cell and leaves the clipboard as it is
C19_CopyKeystroke ==
    [][/\ on_ctrl_c =>
             /\ Cardinality(table.selection) > 1 =>
                   clipboard' = Str(selection_block(table))
             /\ (Cardinality(table.selection) <= 1 /\ table.last_cell_value # NoneV) =>
                   clipboard' = table.last_cell_value
       /\ \A i \in 1..RowLimit, col \in ViewColumns, how \in {"plain", "ctrl"} :
             on_single_click(i, col, how) =>
                /\ clipboard' = clipboard
                /\ table'.last_cell_value =
                      Str(format_value(table.df.rows[i].cells[col], table.df.dtype[col]))]_vars

-----------------------------------------------------------------------------
(* Claim about the choice of the comparison mode, checked under SpecModel    *)

\* C20: with one filter whose operator is not a null check, the view is what
\* the datetime comparison gives if the column is a timestamp column, or if
\* value1 parses as a date/time and some value of the column does; else what
\* the numeric comparison gives if value1 parses as a number and some value
\* of the column is a number; else what the string comparison gives
C20_ModePriority ==
    (/\ gen = "main" /\ ~df.none
     /\ Len(filters) = 1
     /\ filters[1].column \in Columns(df)
     /\ filters[1].op \notin {"is null", "is not null"}) =>
        LET f == filters[1]
            v1 == Strip(f.value1)
            cell(i) == df.rows[i].cells[f.column]
            datetime_mode ==
                \/ IsDatetimeDtype(df, f.column)
                \/ /\ try_to_datetime(v1).k # "none"
                   /\ \E i \in DOMAIN df.rows : CoerceDatetime(cell(i)).k = "ts"
            numeric_mode ==
                /\ try_to_numeric(v1).k = "num"
                /\ \E i \in DOMAIN df.rows : CoerceNumeric(cell(i)).k = "num"
            out == IF datetime_mode THEN DatetimeOps(df, f)
                   ELSE IF numeric_mode THEN NumericOps(df, f)
                   ELSE apply_string_ops(df, [i \in DOMAIN df.rows |->
                                                 AsString(cell(i), df.dtype[f.column])],
                                         f.op, v1)
        IN  /\ ~view.none
            /\ view.rows = IF out.raised THEN df.rows ELSE out.rows

\* a value that is a year and a number, on a column of numbers: the datetime
\* comparison is taken and keeps no row
C20_Witness ==
    /\ gen = "main" /\ ~df.none /\ ~view.none
    /\ "age" \in Columns(df)
    /\ filters = <<FilterSpec("age", "between", <<"2", "0", "2", "4">>, <<"5">>)>>
    /\ view.rows = <<>>

-----------------------------------------------------------------------------
(* Claims about the whole programs, checked under the specification each     *)
(* names                                                                     *)

C22_AtMostOneTimer ==
    gen \in ViewGens =>
        /\ Cardinality(DOMAIN timers) <= 1
        /\ pending_job = 0 <=> DOMAIN timers = {}
        /\ pending_job # 0 => DOMAIN timers = {pending_job}

\* a keystroke that found a timer half way to its time, cancelled it and
\* scheduled the next
C22_Witness ==
    /\ ui.op \in {"on_col_typed", "on_search_typed"}
    /\ burst.n >= 2
    /\ burst.elapsed > 0
    /\ pending_job # 0
    /\ DOMAIN timers = {pending_job}
    /\ timers[pending_job] = DEBOUNCE_MS

\* C23: a DataTable is Empty (no frame, nothing else remembered) or
\* Populated; set_dataframe leads to Populated from either, a header click
\* leaves a Populated table Populated with the same rows rebuilt and changes
\* nothing in an Empty one, and clear() leads to Empty
C23_EmptyOrPopulated ==
    /\ [](table.df.none =>
             /\ table.df = NoTable
             /\ table.sort_col = "" /\ table.sort_asc
             /\ DOMAIN table.heading = {}
             /\ table.last_cell_value = NoneV /\ table.selection = {})
    /\ [][/\ \A t \in ViewTables \cup {Events, Trades}, n \in 0..(RowLimit + 2) :
                dt_set_dataframe(head(t, n)) => ~table'.df.none
          /\ dt_clear => table'.df.none
          /\ \A col \in ViewColumns \cup {"ev", "tag"} :
                on_heading_click(col) =>
                   IF table.df.none THEN table' = table
                   ELSE /\ ~table'.df.none
                        /\ Len(table'.df.rows) = Len(table.df.rows)
                        /\ Ids(table'.df.rows) = Ids(table.df.rows)]_vars

\* clear() called on a table that held a frame
C23_Witness ==
    /\ ui.op = "dt_clear"
    /\ ui.populated
    /\ table.df.none

\* C24: whenever a DataView has no debounce timer pending, the token the
\* model holds for each column with a filter widget is the text the widget
\* shows (All for an empty widget)
C24_TokensAreWidgetTexts ==
    (gen \in ViewGens /\ ~df.none /\ pending_job = 0) =>
        \A c \in DOMAIN filter_vars :
           col_filters[c] = (IF filter_vars[c] # <<>> THEN filter_vars[c] ELSE All)

\* C25: in manual-apply mode, whenever the Apply button exists, the text it
\* would apply (_search_buffer) is the text the search entry shows
C25_ApplyAppliesWhatIsShown ==
    (gen \in ViewGens /\ manual_search_apply(gen) /\ ~df.none) =>
        search_buffer = search_var

\* C26: an action that has a compute timestamp implies a loaded raptor
\* table, and a step records a compute timestamp only while the main window
\* holds a raptor table with rows
C26_ReadyOnlyWithRaptor ==
    /\ [](\A k \in ActionKeys(gen) : is_action_ready(state, k) => is_raptor_loaded(state))
    /\ [][state'.actions_computed_at # state.actions_computed_at =>
             /\ raptor_df = "rows"
             /\ is_raptor_loaded(state)]_vars

\* a run_action that marked its action on a loaded raptor table, the
\* underlyings not loaded
C26_Witness ==
    /\ ran.op = "run_action"
    /\ ran.outcome = "ok"
    /\ is_action_ready(state, ran.key)
    /\ raptor_df = "rows"
    /\ is_raptor_loaded(state)
    /\ underlyings_df = "None"

\* C27: in every generation's main window, once run_action(a) has completed
\* without error on a loaded raptor table, a is ready and not stale, and it
\* stays so until the raptor table is loaded again
C27_RunMakesReady ==
    /\ []((ran.op = "run_action" /\ ran.outcome = "ok") =>
             /\ is_action_ready(state, ran.key)
             /\ ~is_action_stale(state, ran.key))
    /\ [][\A k \in ActionKeys(gen) :
             (/\ is_action_ready(state, k) /\ ~is_action_stale(state, k)
              /\ state'.raptor_loaded_at = state.raptor_loaded_at) =>
                 (is_action_ready(state', k) /\ ~is_action_stale(state', k))]_vars

\* C28: in every reachable state of either DataModel the rows of the view are
\* a subsequence of the rows of the canonical table (none added, none twice,
\* none out of order), and the view is None exactly when no table is set
C28_ViewIsSubsequence ==
    /\ view.none = df.none
    /\ \E at \in [DOMAIN view.rows -> DOMAIN df.rows] :
          /\ \A i \in DOMAIN view.rows : view.rows[i] = df.rows[at[i]]
          /\ \A i, j \in DOMAIN view.rows : i < j => at[i] < at[j]

\* a filter, a search or a removal has left two rows of three, and they are
\* not neighbours in the table
C28_Witness ==
    /\ ~df.none /\ Len(df.rows) = 3
    /\ last.op \notin {"init", "set_df"} /\ ~last.raised
    /\ Len(view.rows) = 2
    /\ view.rows[1] = df.rows[1] /\ view.rows[2] = df.rows[3]

\* C29: a header click only permutes the rows of the table: after the click
\* the table holds every row as many times as before it, so after any number
\* of clicks it holds the rows the last set_dataframe gave it
C29_SortOnlyPermutes ==
    [][ui'.op = "on_heading_click" =>
          LET Count(rows, r) == Cardinality({i \in DOMAIN rows : rows[i] = r})
              old == table.df.rows
              new == table'.df.rows
          IN  /\ table'.df.none = table.df.none
              /\ Len(new) = Len(old)
              /\ \A i \in DOMAIN old : Count(new, old[i]) = Count(old, old[i])]_vars

\* a header click has left the rows in another order than set_dataframe gave
C29_Witness ==
    /\ ui.op = "on_heading_click"
    /\ table.sort_col # ""
    /\ Len(table.df.rows) >= 2
    /\ \E i, j \in DOMAIN table.df.rows : i < j /\ table.df.rows[i].id > table.df.rows[j].id

=========================================================================
